---- MODULE Spec2Model ----
(***************************************************************************)
(* Simultaneous-move Monte Carlo tree search (SmMCTS) driving the          *)
(* DrawHighCard simulator.  The search tree is an arena of nodes, the      *)
(* driver is a state machine over the positions of runSimulations and      *)
(* _simulate, and every random draw (rollout move, UCT tie-break, chance   *)
(* resolution) is a nondeterministic choice.                               *)
(***************************************************************************)
EXTENDS Integers, Sequences, FiniteSets, TLC

\* ------------------------------------------------------------------ bounds
\* Largest value simulationsRan may reach in a behaviour.
MaxSims == 6
\* Largest numberOfSimulations passed to one runSimulations call.
MaxRequest == 2
\* Largest value simulationsRan may reach in the specification for termination.
LiveMaxSims == 2
\* Largest maxTurns of a simulator in the specification of the simulator alone.
MaxTurnsBound == 2
\* Largest number of restart() calls in that specification.
MaxRestarts == 2

\* ------------------------------------------------- DrawHighCard: the inputs
\* The simulators handed to the driver: new DrawHighCard(maxTurns, chanceToDouble)
\* followed by setHands(hands).  canDouble is chanceToDouble > 0.
Games ==
    { [maxTurns |-> 2, canDouble |-> FALSE, hands |-> [max |-> <<4, 6>>, min |-> <<3, 5>>]],
      [maxTurns |-> 1, canDouble |-> FALSE, hands |-> [max |-> <<4, 6>>, min |-> <<3, 5>>]],
      [maxTurns |-> 2, canDouble |-> FALSE, hands |-> [max |-> <<4, 6>>, min |-> <<3, 5, 2>>]],
      [maxTurns |-> 3, canDouble |-> TRUE,  hands |-> [max |-> <<3>>,    min |-> <<3>>]] }

\* this._players = new Set(['min', 'max']): iteration order min, max.
Players == <<"min", "max">>

\* ------------------------------------------------------ DrawHighCard actions
\* An absent joint action (undefined in the play log).
NoAction == [max |-> 0, min |-> 0, rng |-> FALSE, doubled |-> <<>>]

\* new DrawHighCardFullAction(Map([['max', a], ['min', b]])).
DrawHighCardFullAction(mx, mn) == [max |-> mx, min |-> mn, rng |-> FALSE, doubled |-> <<>>]

\* new DrawHighCardRngFullAction(play, doubled).
DrawHighCardRngFullAction(play, dbl) ==
    [max |-> play.max, min |-> play.min, rng |-> TRUE, doubled |-> dbl]

\* Action.hash of one player's action: hasha of the card value's name.
PlayerActionHash(v) == v

\* The component of a joint action for one player (actions.get(player)).
ActionOf(sa, player) == IF player = "max" THEN sa.max ELSE sa.min

\* The hash of a joint action without the "doubled:" suffix of a chance
\* resolution: DrawHighCardFullAction.toString for every joint action.
SimultActionHashWithoutDoubled(sa) == [max |-> sa.max, min |-> sa.min, doubled |-> <<>>]

\* DrawHighCardFullAction.toString / DrawHighCardRngFullAction.toString, and
\* the joint action's hash (hasha of that string, taken as injective): the two
\* draws, and for a chance resolution the "doubled:" suffix.
SimultActionHash(sa) ==
    [max |-> sa.max, min |-> sa.min,
     doubled |-> IF sa.rng
                 THEN (IF Len(sa.doubled) > 0 THEN sa.doubled ELSE <<"none">>)
                 ELSE <<>>]

\* -------------------------------------------------------- DrawHighCardState
\* new DrawHighCardState(isFinal, hands, turn, score, chanceToDouble, selected).
DrawHighCardState(isFinal, hands, turn, score, canDouble, selected) ==
    [final |-> isFinal, hands |-> hands, turn |-> turn, score |-> score,
     canDouble |-> canDouble, selected |-> selected]

\* DrawHighCardState.toString and hash (hasha of that string, taken as
\* injective): turn, score, both hands, the selected action and the DONE mark.
StateHash(st) ==
    [turn |-> st.turn, score |-> st.score,
     minHand |-> st.hands.min, maxHand |-> st.hands.max,
     action |-> IF st.selected = NoAction
                THEN [max |-> 0, min |-> 0, doubled |-> <<"not selected">>]
                ELSE SimultActionHash(st.selected),
     done |-> st.final]

\* DrawHighCardState.awaitsChance.
AwaitsChance(st) == st.canDouble /\ st.selected # NoAction /\ ~st.selected.rng

\* DrawHighCardState.getPlayerActions: the hand, in hand order.
GetPlayerActions(st, player) == st.hands[player]

\* DrawHighCardState.possibleSimultaneousActions: for each max card, for each
\* min card, in hand order.
PossibleSimultaneousActions(st) ==
    LET mx == st.hands.max
        mn == st.hands.min
    IN  [k \in 1..(Len(mx) * Len(mn)) |->
            DrawHighCardFullAction(mx[((k - 1) \div Len(mn)) + 1],
                                   mn[((k - 1) % Len(mn)) + 1])]

\* ------------------------------------------------------------- DrawHighCard
\* this._playLog[i] of a sparse array: undefined where nothing was stored.
PlayLogAt(s, i) == IF i \in DOMAIN s.playLog THEN s.playLog[i] ELSE NoAction

\* isOver with the turn compared one too early.
IsOverAtMaxTurns(g, s) ==
    \/ s.turn >= g.maxTurns
    \/ \E p \in {"min", "max"} : Len(s.hands[p]) = 0

\* DrawHighCard.isOver.
IsOver(g, s) ==
    \/ s.turn > g.maxTurns
    \/ \E p \in {"min", "max"} : Len(s.hands[p]) = 0

\* DrawHighCard.state.
SimState(g, s) ==
    DrawHighCardState(IsOver(g, s), s.hands, s.turn, s.score, g.canDouble,
                      PlayLogAt(s, s.turn))

\* DrawHighCard.getPreviousSimultaneousAction.
GetPreviousSimultaneousAction(g, s) ==
    PlayLogAt(s, s.turn - (IF AwaitsChance(SimState(g, s)) THEN 0 ELSE 1))

\* DrawHighCard.getReward.
GetReward(s) == s.score

\* restart that forgets to put the turn back.
RestartKeepsTurnZero(g) == [hands |-> g.hands, turn |-> 0, score |-> 0, playLog |-> <<>>]

\* The simulator after new DrawHighCard(...) and setHands(hands): and what
\* restart() returns to (empty play log, score 0, the initial hands, turn 1).
Restart(g) == [hands |-> g.hands, turn |-> 1, score |-> 0, playLog |-> <<>>]

\* DrawHighCard.choose: records the joint action for the current turn.
Choose(s, sa) ==
    [s EXCEPT !.playLog = (s.turn :> sa) @@ s.playLog]

\* A removal that takes the first card of the hand, whatever was played.
RemoveFirstCard(hand, v) == Tail(hand)

\* indexOf + splice(i, 1): the hand without the first occurrence of v.  For a
\* value the hand does not hold indexOf gives -1 and splice(-1, 1) removes
\* the last card.
RemoveFromHand(hand, v) ==
    LET i == IF \E k \in 1..Len(hand) : hand[k] = v
             THEN CHOOSE k \in 1..Len(hand) :
                      hand[k] = v /\ \A j \in 1..(k - 1) : hand[j] # v
             ELSE Len(hand)
    IN  [k \in 1..(Len(hand) - 1) |-> IF k < i THEN hand[k] ELSE hand[k + 1]]

\* The chance resolutions one runSimultaneousAction can draw: which players'
\* values are doubled (max is tried first, then min).
Resolutions(g) ==
    IF g.canDouble THEN {<<>>, <<"max">>, <<"min">>, <<"max", "min">>} ELSE {<<>>}

InSeq(x, sq) == \E k \in 1..Len(sq) : sq[k] = x

\* runSimultaneousAction that does not move on to the next turn.
RunSimultaneousActionSameTurn(g, s, dbl) ==
    LET play == PlayLogAt(s, s.turn)
        vmax == IF InSeq("max", dbl) THEN 2 * play.max ELSE play.max
        vmin == IF InSeq("min", dbl) THEN 2 * play.min ELSE play.min
    IN  [hands   |-> [max |-> RemoveFromHand(s.hands.max, play.max),
                      min |-> RemoveFromHand(s.hands.min, play.min)],
         turn    |-> s.turn,
         score   |-> s.score + (vmax - vmin),
         playLog |-> IF g.canDouble
                     THEN (s.turn :> DrawHighCardRngFullAction(play, dbl)) @@ s.playLog
                     ELSE s.playLog]

\* DrawHighCard.runSimultaneousAction with the resolution dbl drawn.
RunSimultaneousAction(g, s, dbl) ==
    LET play == PlayLogAt(s, s.turn)
        vmax == IF InSeq("max", dbl) THEN 2 * play.max ELSE play.max
        vmin == IF InSeq("min", dbl) THEN 2 * play.min ELSE play.min
    IN  [hands   |-> [max |-> RemoveFromHand(s.hands.max, play.max),
                      min |-> RemoveFromHand(s.hands.min, play.min)],
         turn    |-> s.turn + 1,
         score   |-> s.score + (vmax - vmin),
         playLog |-> IF g.canDouble
                     THEN (s.turn :> DrawHighCardRngFullAction(play, dbl)) @@ s.playLog
                     ELSE s.playLog]

\* ------------------------------------------------------------ MonteCarloNode
\* A node constructor that counts the creation as a visit.
MonteCarloNodeVisited(st, parent) ==
    [state |-> st, parent |-> parent, childs |-> <<>>,
     visits |-> 1, payoff |-> 0, rollouts |-> 0]

\* new MonteCarloNode(state, simultAction, parent): parent 0 is "no parent".
MonteCarloNode(st, parent) ==
    [state |-> st, parent |-> parent, childs |-> <<>>,
     visits |-> 0, payoff |-> 0, rollouts |-> 0]

\* MonteCarloNode.hash.
NodeHash(nd) == StateHash(nd.state)

\* MonteCarloNode.isRoot.
IsRoot(nd) == nd.parent = 0

\* MonteCarloNode.isFinalState.
IsFinalState(nd) == nd.state.final

\* MonteCarloNode.hasChild / getChild.
HasChild(nd, sa) == SimultActionHash(sa) \in DOMAIN nd.childs
GetChild(nd, sa) == nd.childs[SimultActionHash(sa)]

\* addChild that stores nothing: the new node is left out of the child map.
AddChildNowhere(nd, child, sa) == nd

\* MonteCarloNode.addChild: the child stored under the joint action's hash.
AddChild(nd, child, sa) ==
    [nd EXCEPT !.childs = (SimultActionHash(sa) :> child) @@ nd.childs]

\* The node n and its ancestors: the nodes a call on n recurses through.
RECURSIVE ParentChain(_, _)
ParentChain(nds, n) ==
    IF IsRoot(nds[n]) THEN {n} ELSE {n} \cup ParentChain(nds, nds[n].parent)

\* addVisit that forgets the parent chain: only the node itself is credited.
AddVisitNoParent(nds, n, vs) ==
    [nds EXCEPT ![n].visits = @ + 1, ![n].payoff = @ + vs]

\* addVisit that negates the reward from one level of the chain to the next.
AddVisitNegated(nds, n, vs) ==
    [k \in 1..Len(nds) |->
        IF k \in ParentChain(nds, n)
        THEN [nds[k] EXCEPT
                 !.visits = @ + 1,
                 !.payoff = @ + (IF (Cardinality(ParentChain(nds, n))
                                     - Cardinality(ParentChain(nds, k))) % 2 = 0
                                 THEN vs ELSE 0 - vs)]
        ELSE nds[k]]

\* addVisit that hands the reward to the node only: the chain is counted.
AddVisitCountsOnly(nds, n, vs) ==
    [k \in 1..Len(nds) |->
        IF k = n THEN [nds[k] EXCEPT !.visits = @ + 1, !.payoff = @ + vs]
        ELSE IF k \in ParentChain(nds, n) THEN [nds[k] EXCEPT !.visits = @ + 1]
        ELSE nds[k]]

\* MonteCarloNode.addVisit, from node n up the parent chain to the root: each
\* node of the chain gets one more visit and the reward added to its payoff.
AddVisit(nds, n, vs) ==
    [k \in 1..Len(nds) |->
        IF k \in ParentChain(nds, n)
        THEN [nds[k] EXCEPT !.visits = @ + 1, !.payoff = @ + vs]
        ELSE nds[k]]

\* addRollout that forgets the parent chain.
AddRolloutNoParent(nds, n) == [nds EXCEPT ![n].rollouts = @ + 1]

\* MonteCarloNode.addRollout, from node n up the parent chain to the root.
AddRollout(nds, n) ==
    [k \in 1..Len(nds) |->
        IF k \in ParentChain(nds, n)
        THEN [nds[k] EXCEPT !.rollouts = @ + 1]
        ELSE nds[k]]

\* MonteCarloNode.possibleSimultActions.
PossibleSimultActions(nd) == PossibleSimultaneousActions(nd.state)

\* unplayedSimultActions without its filter: every legal joint action.
UnplayedSimultActionsUnfiltered(nds, n) == PossibleSimultActions(nds[n])

\* MonteCarloNode.unplayedSimultActions: the legal joint actions without a
\* child or whose child has no visit, in the order of the legal joint actions.
UnplayedSimultActions(nds, n) ==
    SelectSeq(PossibleSimultActions(nds[n]),
              LAMBDA sa : \/ ~HasChild(nds[n], sa)
                          \/ nds[GetChild(nds[n], sa)].visits = 0)

\* getChilds that looks at the component of max whoever the player is.
GetChildsOfMax(nds, n, player, action) ==
    LET matching == SelectSeq(PossibleSimultaneousActions(nds[n].state),
                       LAMBDA sa : PlayerActionHash(sa.max) = PlayerActionHash(action))
    IN  [k \in 1..Len(matching) |->
            IF HasChild(nds[n], matching[k]) THEN GetChild(nds[n], matching[k]) ELSE 0]

\* MonteCarloNode.getChilds: the children under the legal joint actions whose
\* component for the player has the action's hash (0 where no child exists).
GetChilds(nds, n, player, action) ==
    LET matching == SelectSeq(PossibleSimultActions(nds[n]),
                       LAMBDA sa : PlayerActionHash(ActionOf(sa, player))
                                     = PlayerActionHash(action))
    IN  [k \in 1..Len(matching) |->
            IF HasChild(nds[n], matching[k]) THEN GetChild(nds[n], matching[k]) ELSE 0]

RECURSIVE SumSeq(_)
SumSeq(sq) == IF Len(sq) = 0 THEN 0 ELSE Head(sq) + SumSeq(Tail(sq))

\* MonteCarloNode.getNumberOfVisits(player, action).
GetNumberOfVisits(nds, n, player, action) ==
    LET ch == GetChilds(nds, n, player, action)
    IN  SumSeq([k \in 1..Len(ch) |-> nds[ch[k]].visits])

\* MonteCarloNode.getCumulativePayoff(player, action).
GetCumulativePayoff(nds, n, player, action) ==
    LET ch == GetChilds(nds, n, player, action)
    IN  SumSeq([k \in 1..Len(ch) |-> nds[ch[k]].payoff])

\* MonteCarloNode.getSimultaneousAction: the first legal joint action whose
\* components have the hashes of the chosen actions (NoAction when none has).
GetSimultaneousAction(nd, best) ==
    LET found == SelectSeq(PossibleSimultActions(nd),
                    LAMBDA sa : \A p \in {"min", "max"} :
                        PlayerActionHash(best[p]) = PlayerActionHash(ActionOf(sa, p)))
    IN  IF Len(found) > 0 THEN found[1] ELSE NoAction

\* MonteCarloNode.childActions: the keys of the child map in insertion order.
\* A key is inserted when its child is created, so the order of the keys is
\* the order of the children's positions in the arena.
ChildActions(nd) ==
    [i \in 1..Cardinality(DOMAIN nd.childs) |->
        CHOOSE k \in DOMAIN nd.childs :
            Cardinality({j \in DOMAIN nd.childs : nd.childs[j] < nd.childs[k]}) = i - 1]

\* ------------------------------------------------------------ MonteCarloTree
\* new MonteCarloTree(state): the root is node 1, registered under its hash;
\* the translation list of joint actions is empty.
MonteCarloTree(st) ==
    [nodes       |-> <<MonteCarloNode(st, 0)>>,
     currentNode |-> 1,
     rootHash    |-> StateHash(st),
     registry    |-> (StateHash(st) :> 1),
     actions     |-> <<>>]

\* MonteCarloTree.root.
Root(t) == t.registry[t.rootHash]

\* MonteCarloTree.hasState.
HasState(t, st) == StateHash(st) \in DOMAIN t.registry

\* MonteCarloTree.addAction: the value returned (the constant exists).
AddActionReturns(acts, sa) == SimultActionHash(sa) \in DOMAIN acts

\* MonteCarloTree.addAction: the translation list after the call.
AddAction(acts, sa) ==
    IF SimultActionHash(sa) \in DOMAIN acts THEN acts
    ELSE (SimultActionHash(sa) :> sa) @@ acts

\* backToRoot that starts a new tree at the root's state.
BackToRootNewTree(t) == MonteCarloTree(t.nodes[t.registry[t.rootHash]].state)

\* backToRoot that leaves the cursor where it is.
BackToRootStays(t) == t

\* MonteCarloTree.backToRoot.
BackToRoot(t) == [t EXCEPT !.currentNode = t.registry[t.rootHash]]

\* goToChildState without the hasChild test: a node is created on every call.
GoToChildStateAlwaysNew(t, sa, st) ==
    LET cur   == t.currentNode
        fresh == Len(t.nodes) + 1
        h     == StateHash(st)
    IN  [t EXCEPT !.nodes = Append([t.nodes EXCEPT ![cur] = AddChild(@, fresh, sa)],
                                   MonteCarloNode(st, cur)),
                  !.currentNode = fresh,
                  !.actions = AddAction(t.actions, sa),
                  !.registry = IF h \in DOMAIN t.registry THEN t.registry
                               ELSE (h :> fresh) @@ t.registry]

\* goToChildState without the has test of the registry: the node the cursor
\* arrives at is registered under its hash on every call.
GoToChildStateReregisters(t, sa, st) ==
    LET cur    == t.currentNode
        exists == HasChild(t.nodes[cur], sa)
        fresh  == Len(t.nodes) + 1
        nodes1 == IF exists THEN t.nodes
                  ELSE Append([t.nodes EXCEPT ![cur] = AddChild(@, fresh, sa)],
                              MonteCarloNode(st, cur))
        cur1   == IF exists THEN GetChild(t.nodes[cur], sa) ELSE fresh
    IN  [t EXCEPT !.nodes = nodes1,
                  !.currentNode = cur1,
                  !.actions = AddAction(t.actions, sa),
                  !.registry = (NodeHash(nodes1[cur1]) :> cur1) @@ t.registry]

\* MonteCarloTree.goToChildState.
GoToChildState(t, sa, st) ==
    LET cur    == t.currentNode
        exists == HasChild(t.nodes[cur], sa)
        fresh  == Len(t.nodes) + 1
        nodes1 == IF exists THEN t.nodes
                  ELSE Append([t.nodes EXCEPT ![cur] = AddChild(@, fresh, sa)],
                              MonteCarloNode(st, cur))
        cur1   == IF exists THEN GetChild(t.nodes[cur], sa) ELSE fresh
        h      == NodeHash(nodes1[cur1])
    IN  [t EXCEPT !.nodes = nodes1,
                  !.currentNode = cur1,
                  !.actions = AddAction(t.actions, sa),
                  !.registry = IF h \in DOMAIN t.registry THEN t.registry
                               ELSE (h :> cur1) @@ t.registry]

\* update that starts the backpropagation at the root.
UpdateAtRoot(t, vs) ==
    [t EXCEPT !.nodes = AddVisit(t.nodes, t.registry[t.rootHash], vs)]

\* update that starts the backpropagation at the parent of the cursor.
UpdateFromParent(t, vs) ==
    [t EXCEPT !.nodes = IF IsRoot(t.nodes[t.currentNode]) THEN t.nodes
                        ELSE AddVisit(t.nodes, t.nodes[t.currentNode].parent, vs)]

\* MonteCarloTree.update.
Update(t, vs) == [t EXCEPT !.nodes = AddVisit(t.nodes, t.currentNode, vs)]

\* The number of visits of the child of node n stored under a key.
SimulationsOf(t, n, key) == t.nodes[GetChild(t.nodes[n], t.actions[key])].visits

\* The pass with the comparison turned round: it keeps the least visited.
LeastSimulatedActions(t, n) ==
    LET keys == ChildActions(t.nodes[n])
        kept == SelectSeq(keys, LAMBDA k :
                    \A i \in 1..Len(keys) : SimulationsOf(t, n, keys[i]) >= SimulationsOf(t, n, k))
    IN  [i \in 1..Len(kept) |-> t.actions[kept[i]]]

\* MonteCarloTree.getMostSimulatedSimultaneousAction, the loop: one pass over
\* the child keys of the node, in insertion order, that keeps the joint
\* actions seen with the highest number of visits (maxSimulationActions
\* after the loop).
MaxSimulationActions(t, n) ==
    LET keys == ChildActions(t.nodes[n])
        kept == SelectSeq(keys, LAMBDA k :
                    \A i \in 1..Len(keys) : SimulationsOf(t, n, keys[i]) <= SimulationsOf(t, n, k))
    IN  [i \in 1..Len(kept) |-> t.actions[kept[i]]]

\* MonteCarloTree.getMostSimulatedSimultaneousAction: maxSimulationActions[0].
GetMostSimulatedSimultaneousAction(t, n) == MaxSimulationActions(t, n)[1]

\* MonteCarloTree.getMostSimulatedFirstChildSimultaneousAction.
GetMostSimulatedFirstChildSimultaneousAction(t) ==
    GetMostSimulatedSimultaneousAction(t, Root(t))

\* MonteCarloTree.leaves: the nodes of the registry (this._nodes, one node per
\* state hash) that are final states.
Leaves(t) ==
    {n \in {t.registry[h] : h \in DOMAIN t.registry} : IsFinalState(t.nodes[n])}

\* The sum of a counter (visits, payoff, rollouts) over a set of nodes.
RECURSIVE SumOver(_, _, _)
SumOver(nds, S, field) ==
    IF S = {} THEN 0
    ELSE LET n == CHOOSE x \in S : TRUE
         IN  nds[n][field] + SumOver(nds, S \ {n}, field)

\* MonteCarloNode.getActionHashForChild, on node p for its child: the key of
\* the first entry of the child map, in insertion order, whose node has the
\* hash of the child.
GetActionHashForChild(nds, p, child) ==
    LET keys == ChildActions(nds[p])
        same(k) == NodeHash(nds[nds[p].childs[keys[k]]]) = NodeHash(nds[child])
        first == CHOOSE k \in 1..Len(keys) : same(k) /\ \A j \in 1..(k - 1) : ~same(j)
    IN  keys[first]

\* MonteCarloNode.actionPath() of a node: the keys getActionHashForChild
\* gives along the parent chain, the one of the root's child first (each call
\* unshifts its key and recurses into the parent; the root returns the path).
RECURSIVE ActionPath(_, _)
ActionPath(nds, n) ==
    IF IsRoot(nds[n]) THEN <<>>
    ELSE Append(ActionPath(nds, nds[n].parent),
                GetActionHashForChild(nds, nds[n].parent, n))

\* MonteCarloTree.actionDescription: the joint action listed under the hash.
ActionDescription(t, h) == IF h \in DOMAIN t.actions THEN t.actions[h] ELSE NoAction

\* new MonteCarloTreeFrequencyTable(tree): the reduce over the leaves.  visits
\* is the total weight (this._visits), rewardSum the sum of the payoffs,
\* values the payoffs per visit that min and max range over, modeNode the
\* first leaf with the highest visit count (0 when there is no leaf),
\* modePath the descriptions of the keys of its actionPath.
MonteCarloTreeFrequencyTable(t) ==
    LET leaves == Leaves(t)
        most   == {n \in leaves : \A m \in leaves : t.nodes[m].visits <= t.nodes[n].visits}
    IN  [visits    |-> SumOver(t.nodes, leaves, "visits"),
         rewardSum |-> SumOver(t.nodes, leaves, "payoff"),
         values    |-> {t.nodes[n].payoff \div t.nodes[n].visits : n \in leaves},
         modeNode  |-> IF leaves = {} THEN 0
                       ELSE CHOOSE n \in most : \A m \in most : n <= m,
         modePath  |-> IF leaves = {} THEN <<>>
                       ELSE LET path == ActionPath(t.nodes,
                                           CHOOSE n \in most : \A m \in most : n <= m)
                            IN  [i \in 1..Len(path) |-> ActionDescription(t, path[i])]]

\* ------------------------------------------------------------------- SmMCTS
\* The unit of the fixed-point numbers that stand for the floating-point
\* values of UCT: a value x is held as the integer nearest below x * Scale.
Scale == 10000

\* DEFAULT_EXPLORATION_COEFFICIENT = Math.SQRT2, in units of 1 / Scale.
DEFAULT_EXPLORATION_COEFFICIENT == 14142

\* Math.log10(n) in units of 1 / Scale, for the visit counts a run can reach.
Log10Scaled(n) ==
    <<0, 3010, 4771, 6021, 6990, 7782, 8451, 9031, 9542, 10000, 10414, 10792>>[n]

\* Math.sqrt on integers: the largest r with r * r <= x, by bisection.
RECURSIVE SqrtBetween(_, _, _)
SqrtBetween(x, lo, hi) ==
    IF lo >= hi THEN lo
    ELSE LET mid == (lo + hi + 1) \div 2
         IN  IF mid * mid <= x THEN SqrtBetween(x, mid, hi)
             ELSE SqrtBetween(x, lo, mid - 1)

Sqrt(x) == SqrtBetween(x, 0, 2 * Scale)

\* UCT without the sign of the player: min is treated as max.
UCTWithoutSign(player, payoff, actionVisits, numberOfVisits, explorationCoefficient) ==
    ((payoff * Scale) \div actionVisits)
      + ((explorationCoefficient
            * Sqrt((Log10Scaled(numberOfVisits) * Scale) \div actionVisits)) \div Scale)

\* SmMCTS.UCT for actionVisits > 0 and numberOfVisits > 0.
UCT(player, payoff, actionVisits, numberOfVisits, explorationCoefficient) ==
    LET payoffAvg   == (payoff * Scale) \div actionVisits
        exploration == Sqrt((Log10Scaled(numberOfVisits) * Scale) \div actionVisits)
    IN  (IF player = "min" THEN -1 ELSE 1)
          * (payoffAvg + ((explorationCoefficient * exploration) \div Scale))

\* SmMCTS.UCT: the zero-visit error is raised.
UCTThrows(actionVisits, numberOfVisits) == actionVisits = 0 \/ numberOfVisits = 0

\* SmMCTS._select, the UCT part: the visit counts handed to UCT, one call
\* for each player and each legal action of the player at node n.
UCTCalls(nds, n) ==
    UNION {{[player |-> Players[i], action |-> GetPlayerActions(nds[n].state, Players[i])[k],
             actionVisits |-> GetNumberOfVisits(nds, n, Players[i],
                                 GetPlayerActions(nds[n].state, Players[i])[k]),
             numberOfVisits |-> nds[n].visits] :
               k \in 1..Len(GetPlayerActions(nds[n].state, Players[i]))} :
           i \in 1..Len(Players)}

\* SmMCTS._select, the UCT part for one player: the legal actions of the
\* player whose UCT value is maximal (bestPlayerActions after the loop).
BestPlayerActions(nds, n, player, coef) ==
    LET acts == GetPlayerActions(nds[n].state, player)
        utc(k) == UCT(player,
                      GetCumulativePayoff(nds, n, player, acts[k]),
                      GetNumberOfVisits(nds, n, player, acts[k]),
                      nds[n].visits, coef)
    IN  {acts[k] : k \in {j \in 1..Len(acts) : \A i \in 1..Len(acts) : utc(i) <= utc(j)}}

\* _select that takes any unplayed joint action, not the first.
SelectAnyUnplayed(nds, n, coef) ==
    LET unplayed == UnplayedSimultActions(nds, n)
    IN  IF Len(unplayed) > 0 THEN {unplayed[k] : k \in 1..Len(unplayed)}
        ELSE {GetSimultaneousAction(nds[n], [min |-> bmin, max |-> bmax]) :
                bmin \in BestPlayerActions(nds, n, "min", coef),
                bmax \in BestPlayerActions(nds, n, "max", coef)}

\* _select that looks at the root whatever the cursor is: the first legal
\* joint action of the root's state.
SelectAtRoot(nds, n, coef) == {PossibleSimultActions(nds[1])[1]}

\* SmMCTS._select: the joint actions one call can return.  The first unplayed
\* joint action if there is one; otherwise, for each player, a random one of
\* that player's best actions, combined into the matching legal joint action.
Select(nds, n, coef) ==
    LET unplayed == UnplayedSimultActions(nds, n)
    IN  IF Len(unplayed) > 0 THEN {unplayed[1]}
        ELSE {GetSimultaneousAction(nds[n], [min |-> bmin, max |-> bmax]) :
                bmin \in BestPlayerActions(nds, n, "min", coef),
                bmax \in BestPlayerActions(nds, n, "max", coef)}

\* MonteCarloTree.getMostSimulatedPath: from the root, the most simulated
\* joint action of each node until a node without children is reached.
RECURSIVE MostSimulatedPathFrom(_, _)
MostSimulatedPathFrom(t, n) ==
    IF DOMAIN t.nodes[n].childs = {} THEN <<>>
    ELSE LET nextAction == GetMostSimulatedSimultaneousAction(t, n)
         IN  <<nextAction>> \o MostSimulatedPathFrom(t, GetChild(t.nodes[n], nextAction))

GetMostSimulatedPath(t) == MostSimulatedPathFrom(t, Root(t))

\* ------------------------------------------------------------------- state
VARIABLES
    game,              \* the DrawHighCard configuration (maxTurns, chance, initial hands)
    sim,               \* the simulator: hands, turn, score, play log
    tree,              \* the MonteCarloTree: nodes, cursor, registry, joint actions
    simulationsRan,    \* SmMCTS._simulationsRan
    targetSimulations, \* runSimulations: targetSimulations
    deadlinePassed,    \* runSimulations: moment().isAfter(targetTime)
    pc,                \* where the driver is: idle, simulate, select, rollout, restart, loopTest
    didRollout,        \* the argument of the pending _simulate call
    result,            \* what the last runSimulations call returned
    ranAtCall,         \* history: simulationsRan when the current call began
    completed,         \* history: number of iterations completed so far
    directVisits,      \* history: per node, the iterations backpropagated from it
    expansionNodes,    \* history: the nodes a rollout was started from
    calls,             \* history: runs since setHands or restart, restarts, runs before the last restart
    configured,        \* history: the simulator's state hash right after setHands
    startTree,         \* history: the tree when the current iteration began
    directPayoff,      \* history: per node, the sum of the rewards backpropagated from it
    probe              \* the last direct call of a node method and what came of it

vars == <<game, sim, tree, simulationsRan, targetSimulations, deadlinePassed, pc,
          didRollout, result, ranAtCall, completed, directVisits, expansionNodes,
          calls, configured, startTree, directPayoff, probe>>

history == <<ranAtCall, completed, directVisits, expansionNodes, configured, startTree, directPayoff, probe>>

\* No node method has been called directly.
NoProbe == [called |-> FALSE]

NoResult ==
    [bestAction |-> NoAction, bestActionPath |-> <<>>,
     payoff |-> [visits |-> 0, rewardSum |-> 0, values |-> {}, modeNode |-> 0,
                 modePath |-> <<>>]]

\* new DrawHighCard(..); setHands(..); new SmMCTS(game).
Init ==
    /\ game \in Games
    /\ sim = Restart(game)
    /\ tree = MonteCarloTree(SimState(game, Restart(game)))
    /\ simulationsRan = 0
    /\ targetSimulations = 0
    /\ deadlinePassed = FALSE
    /\ pc = "idle"
    /\ didRollout = FALSE
    /\ result = NoResult
    /\ ranAtCall = 0
    /\ completed = 0
    /\ directVisits = <<0>>
    /\ expansionNodes = {}
    /\ calls = [runs |-> 0, restarts |-> 0, played |-> 0]
    /\ configured = StateHash(SimState(game, Restart(game)))
    /\ startTree = tree
    /\ directPayoff = <<0>>
    /\ probe = NoProbe

\* The sum of the rewards backpropagated from node n.
DirectPayoffOf(n) == IF n \in DOMAIN directPayoff THEN directPayoff[n] ELSE 0

\* The count of iterations backpropagated from node n.
DirectVisitsOf(n) == IF n \in DOMAIN directVisits THEN directVisits[n] ELSE 0

\* ----------------------------------------------------------------- actions
\* runSimulations(n): the target is set and the first iteration begins (the
\* loop is a do-while).
RunSimulations(n) ==
    /\ pc = "idle"
    /\ simulationsRan + (IF n > 0 THEN n ELSE 1) <= MaxSims
    /\ targetSimulations' = simulationsRan + n
    /\ deadlinePassed' = FALSE
    /\ ranAtCall' = simulationsRan
    /\ didRollout' = FALSE
    /\ pc' = "simulate"
    /\ UNCHANGED <<game, sim, tree, simulationsRan, result, completed,
                   directVisits, expansionNodes, calls, configured, startTree, directPayoff, probe>>

\* _simulate, the simulator is over: register the last transition unless a
\* rollout led here, count the iteration, backpropagate the reward.
SimulateOver ==
    /\ pc = "simulate"
    /\ IsOver(game, sim)
    /\ LET t1 == IF ~didRollout
                 THEN GoToChildState(tree, GetPreviousSimultaneousAction(game, sim),
                                     SimState(game, sim))
                 ELSE tree
       IN  /\ tree' = Update(t1, GetReward(sim))
           /\ directVisits' = [n \in 1..Len(t1.nodes) |->
                                 DirectVisitsOf(n) + (IF n = t1.currentNode THEN 1 ELSE 0)]
           /\ directPayoff' = [n \in 1..Len(t1.nodes) |->
                                 DirectPayoffOf(n)
                                 + (IF n = t1.currentNode THEN GetReward(sim) ELSE 0)]
    /\ simulationsRan' = simulationsRan + 1
    /\ pc' = "restart"
    /\ UNCHANGED <<game, sim, targetSimulations, deadlinePassed, didRollout, result,
                   ranAtCall, completed, expansionNodes, calls, configured, startTree, probe>>

\* _simulate, the state awaits chance: register the chance node, let the
\* simulator resolve the chance, and go on.
SimulateChance ==
    /\ pc = "simulate"
    /\ ~IsOver(game, sim)
    /\ AwaitsChance(SimState(game, sim))
    /\ tree' = GoToChildState(tree, GetPreviousSimultaneousAction(game, sim),
                              SimState(game, sim))
    /\ \E dbl \in Resolutions(game) : sim' = RunSimultaneousAction(game, sim, dbl)
    /\ calls' = [calls EXCEPT !.runs = @ + 1]
    /\ didRollout' = FALSE
    /\ UNCHANGED <<game, simulationsRan, targetSimulations, deadlinePassed, pc, result,
                   history>>

\* _simulate without the alignment: the tree has the state and Selection
\* runs with the cursor where it was.
SimulateAlignInPlace ==
    /\ pc = "simulate"
    /\ ~IsOver(game, sim)
    /\ ~AwaitsChance(SimState(game, sim))
    /\ HasState(tree, SimState(game, sim))
    /\ pc' = "select"
    /\ UNCHANGED <<game, sim, tree, simulationsRan, targetSimulations, deadlinePassed,
                   didRollout, result, history, calls>>

\* _simulate, the tree has the state: the cursor is moved to the node of the
\* simulator's state unless it is already on a node with that hash.
SimulateAlign ==
    /\ pc = "simulate"
    /\ ~IsOver(game, sim)
    /\ ~AwaitsChance(SimState(game, sim))
    /\ HasState(tree, SimState(game, sim))
    /\ tree' = IF NodeHash(tree.nodes[tree.currentNode]) # StateHash(SimState(game, sim))
               THEN GoToChildState(tree, GetPreviousSimultaneousAction(game, sim),
                                   SimState(game, sim))
               ELSE tree
    /\ pc' = "select"
    /\ UNCHANGED <<game, sim, simulationsRan, targetSimulations, deadlinePassed,
                   didRollout, result, history, calls>>

\* _simulate, after the alignment: select a joint action at the cursor,
\* choose it, run it unless the new state awaits chance, and go on.
SimulateSelect ==
    /\ pc = "select"
    /\ \E simultAction \in Select(tree.nodes, tree.currentNode,
                                  DEFAULT_EXPLORATION_COEFFICIENT) :
          IF ~AwaitsChance(SimState(game, Choose(sim, simultAction)))
          THEN /\ \E dbl \in Resolutions(game) :
                    sim' = RunSimultaneousAction(game, Choose(sim, simultAction), dbl)
               /\ calls' = [calls EXCEPT !.runs = @ + 1]
          ELSE /\ sim' = Choose(sim, simultAction)
               /\ calls' = calls
    /\ didRollout' = FALSE
    /\ pc' = "simulate"
    /\ UNCHANGED <<game, tree, simulationsRan, targetSimulations, deadlinePassed, result,
                   history>>

\* _simulate, a state the tree does not have: register it and start a rollout.
SimulateExpand ==
    /\ pc = "simulate"
    /\ ~IsOver(game, sim)
    /\ ~AwaitsChance(SimState(game, sim))
    /\ ~HasState(tree, SimState(game, sim))
    /\ tree' = GoToChildState(tree, GetPreviousSimultaneousAction(game, sim),
                              SimState(game, sim))
    /\ expansionNodes' = expansionNodes \cup {tree'.currentNode}
    /\ pc' = "rollout"
    /\ UNCHANGED <<game, sim, simulationsRan, targetSimulations, deadlinePassed,
                   didRollout, result, ranAtCall, completed, directVisits, calls,
                   configured, startTree, directPayoff, probe>>

\* _rollout, one turn of the loop: a random legal joint action is chosen and run.
RolloutStep ==
    /\ pc = "rollout"
    /\ ~IsOver(game, sim)
    /\ LET moves == PossibleSimultaneousActions(SimState(game, sim))
       IN  \E k \in 1..Len(moves) : \E dbl \in Resolutions(game) :
              sim' = RunSimultaneousAction(game, Choose(sim, moves[k]), dbl)
    /\ calls' = [calls EXCEPT !.runs = @ + 1]
    /\ UNCHANGED <<game, tree, simulationsRan, targetSimulations, deadlinePassed, pc,
                   didRollout, result, history>>

\* _rollout, the loop is left: the rollout is credited and _simulate(true) is called.
RolloutEnd ==
    /\ pc = "rollout"
    /\ IsOver(game, sim)
    /\ tree' = [tree EXCEPT !.nodes = AddRollout(tree.nodes, tree.currentNode)]
    /\ didRollout' = TRUE
    /\ pc' = "simulate"
    /\ UNCHANGED <<game, sim, simulationsRan, targetSimulations, deadlinePassed, result,
                   history, calls>>

\* runSimulations, after _simulate: this._sim.restart(); this._tree.backToRoot().
\* The body of the loop is done: one more iteration is completed.
RestartAndBackToRoot ==
    /\ pc = "restart"
    /\ sim' = Restart(game)
    /\ tree' = BackToRoot(tree)
    /\ pc' = "loopTest"
    /\ completed' = completed + 1
    /\ calls' = [runs |-> 0, restarts |-> calls.restarts + 1, played |-> calls.runs]
    /\ startTree' = tree'
    /\ UNCHANGED <<game, simulationsRan, targetSimulations, deadlinePassed, didRollout,
                   result, ranAtCall, directVisits, expansionNodes, configured,
                   directPayoff, probe>>

\* The loop condition with the count compared one too far.
LoopConditionOffByOne == simulationsRan <= targetSimulations \/ deadlinePassed

\* The condition of the do-while loop of runSimulations.
LoopCondition == simulationsRan < targetSimulations \/ deadlinePassed

\* The loop condition holds: another iteration.
LoopAgain ==
    /\ pc = "loopTest"
    /\ LoopCondition
    /\ simulationsRan < MaxSims
    /\ didRollout' = FALSE
    /\ pc' = "simulate"
    /\ UNCHANGED <<game, sim, tree, simulationsRan, targetSimulations, deadlinePassed,
                   result, history, calls>>

\* The loop condition fails: runSimulations returns its result.
Return ==
    /\ pc = "loopTest"
    /\ ~LoopCondition
    /\ result' = [bestAction |-> GetMostSimulatedFirstChildSimultaneousAction(tree),
                  bestActionPath |-> GetMostSimulatedPath(tree),
                  payoff |-> MonteCarloTreeFrequencyTable(tree)]
    /\ pc' = "idle"
    /\ UNCHANGED <<game, sim, tree, simulationsRan, targetSimulations, deadlinePassed,
                   didRollout, history, calls>>

\* The clock reaches targetTime while the loop is about to test its condition.
DeadlinePasses ==
    /\ pc = "loopTest"
    /\ ~deadlinePassed
    /\ deadlinePassed' = TRUE
    /\ UNCHANGED <<game, sim, tree, simulationsRan, targetSimulations, pc, didRollout,
                   result, history, calls>>

Next ==
    \/ \E n \in 0..MaxRequest : RunSimulations(n)
    \/ SimulateOver
    \/ SimulateChance
    \/ SimulateAlign
    \/ SimulateSelect
    \/ SimulateExpand
    \/ RolloutStep
    \/ RolloutEnd
    \/ RestartAndBackToRoot
    \/ LoopAgain
    \/ Return
    \/ DeadlinePasses

Spec == Init /\ [][Next]_vars

\* ------------------------------------------------- the loop past the bound
\* The specification for termination keeps the loop running when the count
\* of recorded iterations has reached its bound: the iterations past the
\* bound are taken, and are not recorded in the tree or in simulationsRan.

\* The games of the specification for termination: one with rollouts, one
\* with chance.
LiveGames ==
    { g \in Games : g.maxTurns = 2 /\ Len(g.hands.min) = 2 } \cup
    { g \in Games : g.canDouble }

LiveInit == Init /\ game \in LiveGames

\* runSimulations(n) with a target within the recorded iterations.
LiveRunSimulations(n) ==
    /\ simulationsRan + (IF n > 0 THEN n ELSE 1) <= LiveMaxSims
    /\ RunSimulations(n)

\* Another iteration, recorded.
LiveLoopAgain ==
    /\ simulationsRan < LiveMaxSims
    /\ LoopAgain

\* The loop condition holds at the bound: another iteration, not recorded.
LoopSaturated ==
    /\ pc = "loopTest"
    /\ LoopCondition
    /\ simulationsRan = LiveMaxSims
    /\ pc' = "saturated"
    /\ UNCHANGED <<game, sim, tree, simulationsRan, targetSimulations, deadlinePassed,
                   didRollout, result, history, calls>>

\* An unrecorded iteration ends and the loop condition is tested again.
SaturatedIteration ==
    /\ pc = "saturated"
    /\ pc' = "loopTest"
    /\ UNCHANGED <<game, sim, tree, simulationsRan, targetSimulations, deadlinePassed,
                   didRollout, result, history, calls>>

\* The steps the driver takes by itself once runSimulations was called: the
\* code is sequential and synchronous, so a step that can be taken is taken.
DriverStep ==
    \/ SimulateOver
    \/ SimulateChance
    \/ SimulateAlign
    \/ SimulateSelect
    \/ SimulateExpand
    \/ RolloutStep
    \/ RolloutEnd
    \/ RestartAndBackToRoot
    \/ LiveLoopAgain
    \/ Return
    \/ LoopSaturated
    \/ SaturatedIteration

LiveNext ==
    \/ \E n \in 0..MaxRequest : LiveRunSimulations(n)
    \/ DeadlinePasses
    \/ DriverStep

LiveSpec == LiveInit /\ [][LiveNext]_vars /\ WF_vars(DriverStep)

\* ------------------------------------------------- the simulator on its own
\* The simulator used directly, as its test does: new DrawHighCard(maxTurns,
\* chanceToDouble), setHands(hands), then choose / runSimultaneousAction steps
\* and restart.  In this specification game.hands holds this._initialHands.
\* No driver is built: the driver's variables keep their first values.

\* The hands given to setHands.
HandsChoices ==
    { [max |-> <<4, 6, 3>>, min |-> <<3, 5, 2>>],
      [max |-> <<4, 6>>,    min |-> <<3, 5, 2>>],
      [max |-> <<3, 3>>,    min |-> <<5>>] }

\* The hands of a simulator that was given none yet.
NoHands == [max |-> <<>>, min |-> <<>>]

\* new DrawHighCard(maxTurns, chanceToDouble): empty play log, score 0, turn 0.
NewDrawHighCard == [hands |-> NoHands, turn |-> 0, score |-> 0, playLog |-> <<>>]

\* DrawHighCard.setHands: the hands are set and the turn becomes 1.
SetHands(s, hands) == [s EXCEPT !.hands = hands, !.turn = 1]

\* DrawHighCard.setHands: this._initialHands after the call, a copy of the
\* hands if the simulator had not started.
InitialHandsAfterSetHands(g, s, hands) == IF s.turn < 1 THEN hands ELSE g.hands

GameInit ==
    /\ game \in {[maxTurns |-> T, canDouble |-> c, hands |-> NoHands] :
                    T \in 0..MaxTurnsBound, c \in BOOLEAN}
    /\ sim = NewDrawHighCard
    /\ tree = MonteCarloTree(SimState(game, NewDrawHighCard))
    /\ simulationsRan = 0
    /\ targetSimulations = 0
    /\ deadlinePassed = FALSE
    /\ pc = "game"
    /\ didRollout = FALSE
    /\ result = NoResult
    /\ ranAtCall = 0
    /\ completed = 0
    /\ directVisits = <<0>>
    /\ expansionNodes = {}
    /\ calls = [runs |-> 0, restarts |-> 0, played |-> 0]
    /\ configured = StateHash(SimState(game, NewDrawHighCard))
    /\ startTree = tree
    /\ directPayoff = <<0>>
    /\ probe = NoProbe

\* setHands(hands) on the new simulator.
GameSetHands(hands) ==
    /\ sim.turn < 1
    /\ sim' = SetHands(sim, hands)
    /\ game' = [game EXCEPT !.hands = InitialHandsAfterSetHands(game, sim, hands)]
    /\ calls' = [runs |-> 0, restarts |-> 0, played |-> 0]
    /\ configured' = StateHash(SimState(game', sim'))
    /\ UNCHANGED <<tree, simulationsRan, targetSimulations, deadlinePassed, pc, didRollout,
                   result, ranAtCall, completed, directVisits, expansionNodes, startTree, directPayoff, probe>>

\* choose(simultAction) with a legal joint action, no play being chosen yet
\* for the turn (choose throws otherwise).
GameChoose ==
    /\ sim.turn >= 1
    /\ PlayLogAt(sim, sim.turn) = NoAction
    /\ LET moves == PossibleSimultaneousActions(SimState(game, sim))
       IN  \E k \in 1..Len(moves) : sim' = Choose(sim, moves[k])
    /\ UNCHANGED <<game, tree, simulationsRan, targetSimulations, deadlinePassed, pc,
                   didRollout, result, history, calls>>

\* runSimultaneousAction() after a choose.
GameRunSimultaneousAction ==
    /\ sim.turn >= 1
    /\ PlayLogAt(sim, sim.turn) # NoAction
    /\ \E dbl \in Resolutions(game) : sim' = RunSimultaneousAction(game, sim, dbl)
    /\ calls' = [calls EXCEPT !.runs = @ + 1]
    /\ UNCHANGED <<game, tree, simulationsRan, targetSimulations, deadlinePassed, pc,
                   didRollout, result, history>>

\* restart() on a simulator that was given its hands.
GameRestart ==
    /\ sim.turn >= 1
    /\ calls.restarts < MaxRestarts
    /\ sim' = Restart(game)
    /\ calls' = [runs |-> 0, restarts |-> calls.restarts + 1, played |-> calls.runs]
    /\ UNCHANGED <<game, tree, simulationsRan, targetSimulations, deadlinePassed, pc,
                   didRollout, result, history>>

GameNext ==
    \/ \E hands \in HandsChoices : GameSetHands(hands)
    \/ GameChoose
    \/ GameRunSimultaneousAction
    \/ GameRestart

GameSpec == GameInit /\ [][GameNext]_vars

\* --------------------------------------------- getSimultaneousAction alone
\* MonteCarloNode.getSimultaneousAction called on the root node of a new
\* driver with one action for each player, each any card of the games at
\* hand, in the node's hands or not.

\* MonteCarloNode.getSimultaneousAction: the error "no possible actions for
\* node" is thrown (the node has no legal joint action).
GetSimultaneousActionThrows(nd) == Len(PossibleSimultActions(nd)) = 0

\* The hands of the nodes the method is called on: those of the tests, and
\* one with a hand played out.
ResolveHands ==
    HandsChoices \cup {g.hands : g \in Games} \cup {[max |-> <<>>, min |-> <<5>>]}

\* The cards of those hands.
ResolveCards ==
    UNION {{h[p][k] : k \in 1..Len(h[p])} : h \in ResolveHands, p \in {"min", "max"}}

\* new DrawHighCard(..); setHands(..); new SmMCTS(game): the root node stands
\* for the simulator's first state.
ResolveInit ==
    /\ game \in {[maxTurns |-> MaxTurnsBound, canDouble |-> FALSE, hands |-> h] :
                    h \in ResolveHands}
    /\ sim = Restart(game)
    /\ tree = MonteCarloTree(SimState(game, Restart(game)))
    /\ simulationsRan = 0
    /\ targetSimulations = 0
    /\ deadlinePassed = FALSE
    /\ pc = "resolve"
    /\ didRollout = FALSE
    /\ result = NoResult
    /\ ranAtCall = 0
    /\ completed = 0
    /\ directVisits = <<0>>
    /\ expansionNodes = {}
    /\ calls = [runs |-> 0, restarts |-> 0, played |-> 0]
    /\ configured = StateHash(SimState(game, Restart(game)))
    /\ startTree = tree
    /\ directPayoff = <<0>>
    /\ probe = NoProbe

\* currentNode.getSimultaneousAction(actions) with actions = {max: amax,
\* min: amin}: either the error of a node without legal joint actions, or
\* what find returns (NoAction stands for undefined).
ResolveSimultaneousAction(amax, amin) ==
    /\ pc = "resolve"
    /\ LET nd == tree.nodes[tree.currentNode]
           actions == [max |-> amax, min |-> amin]
       IN  probe' = [called   |-> TRUE,
                     actions  |-> actions,
                     threw    |-> GetSimultaneousActionThrows(nd),
                     returned |-> IF GetSimultaneousActionThrows(nd) THEN NoAction
                                  ELSE GetSimultaneousAction(nd, actions)]
    /\ UNCHANGED <<game, sim, tree, simulationsRan, targetSimulations, deadlinePassed, pc,
                   didRollout, result, ranAtCall, completed, directVisits, expansionNodes,
                   calls, configured, startTree, directPayoff>>

ResolveNext == \E amax, amin \in ResolveCards : ResolveSimultaneousAction(amax, amin)

ResolveSpec == ResolveInit /\ [][ResolveNext]_vars

\* ------------------------------------------------------------------ claims
NodeIds == 1..Len(tree.nodes)

\* The children of node n.
ChildrenOf(n) == {tree.nodes[n].childs[k] : k \in DOMAIN tree.nodes[n].childs}

RECURSIVE SumVisits(_)
SumVisits(S) ==
    IF S = {} THEN 0
    ELSE LET n == CHOOSE x \in S : TRUE
         IN  tree.nodes[n].visits + SumVisits(S \ {n})

\* Between two iterations: the body of the loop has run to its end.
AtIterationBoundary == pc \in {"loopTest", "idle"}

\* The count requested by the current (or last) runSimulations call.
Requested == targetSimulations - ranAtCall

\* A runSimulations call has returned and no other has begun.
Returned == pc = "idle" /\ result # NoResult

\* C1: at every iteration boundary, after N completed iterations (over one or
\* several runSimulations calls), the root's visit count equals
\* simulationsRan and both equal N.
C1_RootVisitsEqualIterations ==
    AtIterationBoundary =>
        /\ tree.nodes[Root(tree)].visits = simulationsRan
        /\ simulationsRan = completed

\* C1 witness: a boundary of a later call, several iterations completed.
C1_Witness ==
    /\ pc = "loopTest"
    /\ ranAtCall > 0
    /\ completed >= 3
    /\ tree.nodes[Root(tree)].visits = completed

\* C2: at every iteration boundary the visits of the root's children sum to
\* the root's visits, and no reward was backpropagated from the root itself.
C2_RootChildrenVisits ==
    AtIterationBoundary =>
        /\ SumVisits(ChildrenOf(Root(tree))) = tree.nodes[Root(tree)].visits
        /\ DirectVisitsOf(Root(tree)) = 0

\* C2 witness: a boundary at which the root has several visited children.
C2_Witness ==
    /\ pc = "loopTest"
    /\ Cardinality(ChildrenOf(Root(tree))) >= 2
    /\ tree.nodes[Root(tree)].visits >= 3
    /\ SumVisits(ChildrenOf(Root(tree))) = tree.nodes[Root(tree)].visits

\* C3: simulationsRan never decreases, a step adds at most 1 to it, and a
\* call runSimulations(n) with n >= 1 that returns has added exactly n.
C3_CounterAdvancesByRequest ==
    [][ /\ simulationsRan' >= simulationsRan
        /\ simulationsRan' <= simulationsRan + 1
        /\ (pc = "loopTest" /\ pc' = "idle" /\ Requested >= 1)
              => simulationsRan' = ranAtCall + Requested ]_vars

\* C3 witness: a later call that asked for two iterations has returned.
C3_Witness ==
    /\ Returned
    /\ ranAtCall > 0
    /\ Requested = 2
    /\ simulationsRan = ranAtCall + 2

\* C4: once the deadline has passed, the loop starts no further iteration.
C4_NoIterationAfterDeadline ==
    [][ (pc = "loopTest" /\ deadlinePassed) => pc' # "simulate" ]_vars

\* C5: every runSimulations call eventually returns.
C5_CallReturns == (pc # "idle") ~> (pc = "idle")

\* C6: the tree never contains two distinct nodes whose states have the same
\* hash.
C6_OneNodePerHash ==
    \A m, n \in NodeIds :
        NodeHash(tree.nodes[m]) = NodeHash(tree.nodes[n]) => m = n

\* C7 as stated: at every iteration boundary every node's visits equal the
\* visits of its children plus 1 if the node was the expansion node of a
\* rollout, plus 0 otherwise.
C7_VisitConservationAsStated ==
    AtIterationBoundary =>
        \A n \in NodeIds :
            tree.nodes[n].visits =
                SumVisits(ChildrenOf(n)) + (IF n \in expansionNodes THEN 1 ELSE 0)

\* C7 amended: at every iteration boundary every node's visits equal the
\* visits of its children plus the number of iterations backpropagated from
\* the node itself; that number is 1 for the expansion node of a rollout and
\* 0 for any other node that is not terminal; a terminal node has no children
\* and its visits are the iterations that ended on it, at least one.
C7_VisitConservation ==
    AtIterationBoundary =>
        \A n \in NodeIds :
            /\ tree.nodes[n].visits = SumVisits(ChildrenOf(n)) + DirectVisitsOf(n)
            /\ ~IsFinalState(tree.nodes[n])
                  => DirectVisitsOf(n) = (IF n \in expansionNodes THEN 1 ELSE 0)
            /\ IsFinalState(tree.nodes[n])
                  => /\ ChildrenOf(n) = {}
                     /\ n \notin expansionNodes
                     /\ DirectVisitsOf(n) >= 1

\* C7 witness: a boundary with a visited terminal node below an expansion
\* node, which so has two visits, and an expansion node still without child.
C7_Witness ==
    /\ AtIterationBoundary
    /\ \E n \in NodeIds :
          /\ IsFinalState(tree.nodes[n]) /\ tree.nodes[n].visits >= 1
          /\ tree.nodes[n].parent \in expansionNodes
          /\ tree.nodes[tree.nodes[n].parent].visits = 2
    /\ \E n \in expansionNodes : ChildrenOf(n) = {} /\ tree.nodes[n].visits = 1

\* A decision node: not terminal, not awaiting chance.
IsDecisionNode(n) ==
    /\ ~IsFinalState(tree.nodes[n])
    /\ ~AwaitsChance(tree.nodes[n].state)

\* Every legal joint action of node n has a child with at least one visit.
FullyExplored(n) ==
    /\ Len(PossibleSimultActions(tree.nodes[n])) > 0
    /\ Len(UnplayedSimultActions(tree.nodes, n)) = 0

\* The sum over the player's legal actions of getNumberOfVisits(player, a).
MarginalVisits(n, player) ==
    LET acts == GetPlayerActions(tree.nodes[n].state, player)
    IN  SumSeq([k \in 1..Len(acts) |-> GetNumberOfVisits(tree.nodes, n, player, acts[k])])

\* C8 as stated: for a fully explored decision node and either player, the
\* marginal visits over the player's legal actions sum to the node's visits.
C8_MarginalConsistencyAsStated ==
    \A n \in NodeIds : \A p \in {"min", "max"} :
        (IsDecisionNode(n) /\ FullyExplored(n))
            => MarginalVisits(n, p) = tree.nodes[n].visits

\* C8 amended: for a fully explored decision node and either player, the
\* marginal visits over the player's legal actions sum to the node's visits
\* less the visit of the rollout, if the node was the expansion node of one.
C8_MarginalConsistency ==
    \A n \in NodeIds : \A p \in {"min", "max"} :
        (IsDecisionNode(n) /\ FullyExplored(n))
            => MarginalVisits(n, p) =
                 tree.nodes[n].visits - (IF n \in expansionNodes THEN 1 ELSE 0)

\* C8 witness: a fully explored expansion node below a fully explored root
\* that has four legal joint actions.
C8_Witness ==
    /\ \E n \in expansionNodes : IsDecisionNode(n) /\ FullyExplored(n)
    /\ FullyExplored(Root(tree))
    /\ Len(PossibleSimultActions(tree.nodes[Root(tree)])) >= 4

\* C9: the joint action runSimulations recommends is a legal joint action of
\* the root that has a child, and no child of the root has more visits than
\* that child.
C9_RecommendationMostVisited ==
    Returned =>
        LET root == tree.nodes[Root(tree)]
            best == result.bestAction
        IN  /\ InSeq(best, PossibleSimultActions(root))
            /\ HasChild(root, best)
            /\ \A c \in ChildrenOf(Root(tree)) :
                   tree.nodes[GetChild(root, best)].visits >= tree.nodes[c].visits

\* C9 witness: a call has returned while the root's children differ in visits
\* and the child created first is not the most visited.
C9_Witness ==
    /\ Returned
    /\ \E c \in ChildrenOf(Root(tree)) :
          /\ tree.nodes[c].visits < tree.nodes[GetChild(tree.nodes[Root(tree)],
                                                        result.bestAction)].visits
          /\ c < GetChild(tree.nodes[Root(tree)], result.bestAction)

\* The joint actions of the root whose children share the highest visit count.
TiedMostSimulated ==
    LET root == tree.nodes[Root(tree)]
    IN  {sa \in {tree.actions[k] : k \in DOMAIN root.childs} :
            \A c \in ChildrenOf(Root(tree)) :
                tree.nodes[GetChild(root, sa)].visits >= tree.nodes[c].visits}

\* The results getMostSimulatedFirstChildSimultaneousAction can produce on
\* the tree as it is: the code draws nothing at random, so there is one.
PossibleRecommendations == {GetMostSimulatedFirstChildSimultaneousAction(tree)}

\* C10: when several children of the root share the highest visit count,
\* every tied joint action is a possible recommendation.
C10_EveryTiedActionPossible ==
    Returned => TiedMostSimulated \subseteq PossibleRecommendations

\* C11: across iterations and runSimulations calls no node disappears and the
\* visit count and the rollout count of every existing node never decrease
\* (so they are, after a later call, at least what they were after an earlier).
C11_CountersNeverDecrease ==
    [][ /\ Len(tree'.nodes) >= Len(tree.nodes)
        /\ \A n \in NodeIds :
              /\ tree'.nodes[n].visits >= tree.nodes[n].visits
              /\ tree'.nodes[n].rollouts >= tree.nodes[n].rollouts ]_vars

\* C11 witness: a later call has returned; a node below the root that was the
\* expansion node of a rollout has been visited again, and the root holds the
\* rollouts of several iterations.
C11_Witness ==
    /\ Returned
    /\ ranAtCall > 0
    /\ \E n \in NodeIds \ {Root(tree)} :
          /\ tree.nodes[n].visits >= 2
          /\ tree.nodes[n].rollouts >= 1
    /\ tree.nodes[Root(tree)].rollouts >= 2

\* The hashes of the states the root's legal joint actions lead to.
RootSuccessorHashes ==
    LET acts == PossibleSimultaneousActions(SimState(game, Restart(game)))
    IN  [k \in 1..Len(acts) |->
            StateHash(SimState(game,
                RunSimultaneousAction(game, Choose(Restart(game), acts[k]), <<>>)))]

\* A game without chance that lasts at least two turns and whose root joint
\* actions lead to pairwise distinct states.
DistinctTwoTurnGame ==
    /\ ~game.canDouble
    /\ game.maxTurns >= 2
    /\ \A p \in {"min", "max"} : Len(game.hands[p]) >= 2
    /\ \A i, j \in DOMAIN RootSuccessorHashes :
          RootSuccessorHashes[i] = RootSuccessorHashes[j] => i = j

\* C13: in such a game, after k iterations on a fresh driver, k not larger
\* than the number of legal joint actions of the root, the root has k
\* children, each the expansion node of one rollout with one visit, so their
\* visits sum to k and their rollout counts sum to k.
C13_FirstIterationsExpandRootChildren ==
    (AtIterationBoundary /\ DistinctTwoTurnGame
       /\ completed <= Len(PossibleSimultActions(tree.nodes[Root(tree)])))
    => /\ Cardinality(ChildrenOf(Root(tree))) = completed
       /\ SumOver(tree.nodes, ChildrenOf(Root(tree)), "visits") = completed
       /\ SumOver(tree.nodes, ChildrenOf(Root(tree)), "rollouts") = completed
       /\ \A c \in ChildrenOf(Root(tree)) :
             /\ c \in expansionNodes
             /\ tree.nodes[c].visits = 1
             /\ tree.nodes[c].rollouts = 1

\* C13 witness: every legal joint action of a root with six of them has been
\* expanded, one per iteration.
C13_Witness ==
    /\ AtIterationBoundary
    /\ DistinctTwoTurnGame
    /\ completed = 6
    /\ Len(PossibleSimultActions(tree.nodes[Root(tree)])) = 6
    /\ Cardinality(ChildrenOf(Root(tree))) = 6

\* The terminal nodes of the tree (every node hangs below the root).
TerminalNodes == {n \in NodeIds : IsFinalState(tree.nodes[n])}

\* C14: the payoff statistics a call returns are computed over every terminal
\* node of the tree: the total weight is the sum of their visit counts and
\* min, max and the mode range over all of them.
C14_StatisticsOverAllTerminalNodes ==
    Returned =>
        /\ result.payoff.visits = SumOver(tree.nodes, TerminalNodes, "visits")
        /\ result.payoff.values =
              {tree.nodes[n].payoff \div tree.nodes[n].visits : n \in TerminalNodes}
        /\ \A n \in TerminalNodes :
              tree.nodes[n].visits <= tree.nodes[result.payoff.modeNode].visits

\* The nodes reachable from node n by child links.
RECURSIVE ReachableFrom(_, _)
ReachableFrom(nds, n) ==
    {n} \cup UNION {ReachableFrom(nds, nds[n].childs[k]) : k \in DOMAIN nds[n].childs}

\* C18: the cursor is always a node reachable from the root by child links,
\* and a step that moves it moves it to a child of the node it was on or to
\* the root.
C18_CursorReachable ==
    /\ [](tree.currentNode \in ReachableFrom(tree.nodes, Root(tree)))
    /\ [][ tree'.currentNode # tree.currentNode
             => \/ tree'.currentNode = Root(tree')
                \/ tree'.currentNode \in
                      {tree'.nodes[tree.currentNode].childs[k] :
                          k \in DOMAIN tree'.nodes[tree.currentNode].childs} ]_vars

\* C18 witness: the cursor is on a node two child links below the root.
C18_Witness ==
    /\ ~IsRoot(tree.nodes[tree.currentNode])
    /\ ~IsRoot(tree.nodes[tree.nodes[tree.currentNode].parent])
    /\ tree.currentNode \in ReachableFrom(tree.nodes, Root(tree))

\* C19: when an iteration starts (the first of a call, or another turn of the
\* loop), the cursor is the root and the simulator's state has the root's hash.
C19_IterationStartsAtRoot ==
    [][ (pc \in {"idle", "loopTest"} /\ pc' = "simulate")
          => /\ tree'.currentNode = Root(tree')
             /\ StateHash(SimState(game', sim')) = NodeHash(tree'.nodes[Root(tree')]) ]_vars

\* C19 witness: an iteration of a later call starts after iterations that
\* moved the cursor and the simulator.
C19_Witness ==
    /\ pc = "simulate"
    /\ sim = Restart(game)
    /\ tree.currentNode = Root(tree)
    /\ ranAtCall > 0
    /\ completed > ranAtCall
    /\ Len(tree.nodes) >= 4

\* The visits and the payoff of node n before it exists are 0.
VisitsBefore(n) == IF n \in NodeIds THEN tree.nodes[n].visits ELSE 0
PayoffBefore(n) == IF n \in NodeIds THEN tree.nodes[n].payoff ELSE 0

\* C20 as stated: every iteration, with or without a rollout, ends on the
\* node of the terminal state, registered if need be, and the reward is
\* backpropagated from that node.
C20_EndsOnTerminalNodeAsStated ==
    [][ (pc = "simulate" /\ pc' = "restart")
          => /\ IsFinalState(tree'.nodes[tree'.currentNode])
             /\ NodeHash(tree'.nodes[tree'.currentNode]) = StateHash(SimState(game, sim))
             /\ tree'.nodes[tree'.currentNode].visits = VisitsBefore(tree'.currentNode) + 1 ]_vars

\* C20 amended: an iteration in which the simulator is over after a descent of
\* the tree registers the transition into the terminal state and
\* backpropagates the reward from the terminal node; an iteration with a
\* rollout registers nothing for the terminal state and backpropagates the
\* reward from the expansion node of the rollout.
C20_EndsOnTerminalOrExpansionNode ==
    [][ (pc = "simulate" /\ pc' = "restart")
          => LET n    == tree'.currentNode
                 prev == GetPreviousSimultaneousAction(game, sim)
             IN  /\ tree'.nodes[n].visits = VisitsBefore(n) + 1
                 /\ tree'.nodes[n].payoff = PayoffBefore(n) + GetReward(sim)
                 /\ directVisits'[n] = DirectVisitsOf(n) + 1
                 /\ IF didRollout
                    THEN /\ n = tree.currentNode
                         /\ n \in expansionNodes
                         /\ ~IsFinalState(tree'.nodes[n])
                         /\ Len(tree'.nodes) = Len(tree.nodes)
                    ELSE /\ IsFinalState(tree'.nodes[n])
                         /\ NodeHash(tree'.nodes[n]) = StateHash(SimState(game, sim))
                         /\ HasChild(tree'.nodes[tree.currentNode], prev)
                         /\ GetChild(tree'.nodes[tree.currentNode], prev) = n ]_vars

\* C20 witness: an iteration has just ended on a terminal node it registered,
\* after an earlier one ended on the expansion node of its rollout.
C20_Witness ==
    /\ pc = "restart"
    /\ ~didRollout
    /\ IsFinalState(tree.nodes[tree.currentNode])
    /\ tree.nodes[tree.currentNode].visits = 1
    /\ \E n \in expansionNodes : DirectVisitsOf(n) = 1

\* C15: once the hands are set, isOver() is true exactly when some hand is
\* empty or at least maxTurns joint actions were run (the turn counter, one
\* more than their number, exceeds maxTurns); with hands larger than maxTurns
\* it is false after fewer than maxTurns steps and true after exactly maxTurns.
C15_IsOverExactly ==
    sim.turn >= 1 =>
        /\ sim.turn = calls.runs + 1
        /\ IsOver(game, sim) <=>
              \/ \E p \in {"min", "max"} : Len(sim.hands[p]) = 0
              \/ calls.runs >= game.maxTurns
        /\ (\A p \in {"min", "max"} : Len(game.hands[p]) > game.maxTurns)
              => /\ calls.runs < game.maxTurns => ~IsOver(game, sim)
                 /\ calls.runs = game.maxTurns => IsOver(game, sim)

\* C15 witness: with hands of three cards and maxTurns 2, two joint actions
\* were run: the simulator is over with cards left in both hands.
C15_Witness ==
    /\ game.maxTurns = 2
    /\ \A p \in {"min", "max"} : Len(game.hands[p]) = 3
    /\ calls.runs = 2
    /\ IsOver(game, sim)
    /\ \A p \in {"min", "max"} : Len(sim.hands[p]) = 1

\* The number of cards of a value in a hand.
CardsOf(hand, v) == Cardinality({k \in 1..Len(hand) : hand[k] = v})

\* C16: without chance, a runSimultaneousAction after a legal choose removes
\* one card, of the chosen value, from each player's hand, adds one to the
\* turn and adds max's value less min's value to the reward; the reward is 0
\* before any step.
C16_RunRemovesCardsAndScores ==
    /\ []((sim.turn >= 1 /\ calls.runs = 0) => GetReward(sim) = 0)
    /\ [][ (~game.canDouble /\ calls'.runs = calls.runs + 1)
             => LET play == PlayLogAt(sim, sim.turn)
                IN  /\ \A p \in {"min", "max"} :
                          /\ Len(sim'.hands[p]) = Len(sim.hands[p]) - 1
                          /\ \A v \in {sim.hands[p][k] : k \in DOMAIN sim.hands[p]} :
                                CardsOf(sim'.hands[p], v) =
                                   CardsOf(sim.hands[p], v)
                                     - (IF v = ActionOf(play, p) THEN 1 ELSE 0)
                    /\ sim'.turn = sim.turn + 1
                    /\ GetReward(sim') = GetReward(sim) + (play.max - play.min) ]_vars

\* C16 witness: two joint actions were run without chance, the second with
\* cards that were not the first of their hands, and the reward is not 0.
C16_Witness ==
    /\ ~game.canDouble
    /\ calls.runs = 2
    /\ GetReward(sim) # 0
    /\ sim.hands.max = <<4>>
    /\ sim.hands.min = <<3>>

SelectWithDraws(nds, n, coef, drawn) ==
    LET unplayed == UnplayedSimultActions(nds, n)
        pick(player) ==
            LET best == BestPlayerActions(nds, n, player, coef)
            IN  IF Cardinality(best) = 1 THEN CHOOSE a \in best : TRUE
                ELSE ActionOf(drawn, player)
    IN  IF Len(unplayed) > 0 THEN unplayed[1]
        ELSE GetSimultaneousAction(nds[n], [min |-> pick("min"), max |-> pick("max")])

\* _rollout with its draws taken from the log: the simulator at the end.
RECURSIVE RolloutWithDraws(_, _, _)
RolloutWithDraws(g, s, log) ==
    IF IsOver(g, s) THEN s
    ELSE RolloutWithDraws(g,
            RunSimultaneousAction(g,
                Choose(s, DrawHighCardFullAction(log[s.turn].max, log[s.turn].min)),
                log[s.turn].doubled),
            log)

\* _simulate with its draws taken from the log: the tree at the end of the
\* iteration, as one function of the tree and the simulator it starts with.
RECURSIVE SimulateWithDraws(_, _, _, _, _)
SimulateWithDraws(g, t, s, rolled, log) ==
    LET prev  == GetPreviousSimultaneousAction(g, s)
        state == SimState(g, s)
    IN  IF IsOver(g, s)
        THEN Update(IF ~rolled THEN GoToChildState(t, prev, state) ELSE t, GetReward(s))
        ELSE IF AwaitsChance(state)
        THEN SimulateWithDraws(g, GoToChildState(t, prev, state),
                 RunSimultaneousAction(g, s, log[s.turn].doubled), FALSE, log)
        ELSE IF HasState(t, state)
        THEN LET t1 == IF NodeHash(t.nodes[t.currentNode]) # StateHash(state)
                       THEN GoToChildState(t, prev, state) ELSE t
                 sa == SelectWithDraws(t1.nodes, t1.currentNode,
                                       DEFAULT_EXPLORATION_COEFFICIENT, log[s.turn])
                 s1 == Choose(s, sa)
                 s2 == IF ~AwaitsChance(SimState(g, s1))
                       THEN RunSimultaneousAction(g, s1, log[s.turn].doubled)
                       ELSE s1
             IN  SimulateWithDraws(g, t1, s2, FALSE, log)
        ELSE LET t1 == GoToChildState(t, prev, state)
                 t2 == [t1 EXCEPT !.nodes = AddRollout(t1.nodes, t1.currentNode)]
             IN  SimulateWithDraws(g, t2, RolloutWithDraws(g, s, log), TRUE, log)

\* C12: the tree an iteration builds is a function of the tree it starts
\* from, the simulator and the random draws it consumed (rollout moves, UCT
\* tie-breaks, chance resolutions), every iteration starts from the tree the
\* one before left, and the recommendation returned is a function of the
\* tree: runs that receive the same draws build the same trees and return the
\* same joint action.
C12_FunctionOfDraws ==
    /\ pc = "restart" =>
          /\ tree = SimulateWithDraws(game, startTree, Restart(game), FALSE, sim.playLog)
          /\ simulationsRan = startTree.nodes[Root(startTree)].visits + 1
    /\ AtIterationBoundary => startTree = tree
    /\ Returned =>
          /\ result.bestAction = GetMostSimulatedFirstChildSimultaneousAction(tree)
          /\ result.bestActionPath = GetMostSimulatedPath(tree)

\* C12 witness: an iteration has ended that began with a UCT tie-break at the
\* fully explored root, in a tree built by iterations with rollouts.
C12_Witness ==
    /\ pc = "restart"
    /\ expansionNodes # {}
    /\ Len(UnplayedSimultActions(startTree.nodes, Root(startTree))) = 0
    /\ Cardinality(Select(startTree.nodes, Root(startTree),
                          DEFAULT_EXPLORATION_COEFFICIENT)) > 1
    /\ tree = SimulateWithDraws(game, startTree, Restart(game), FALSE, sim.playLog)

\* C21: the backpropagation of one iteration with reward r adds exactly 1 to
\* the visit count and exactly r, with the same sign at every level, to the
\* payoff of every node on the parent chain from the cursor node up to and
\* including the root, and leaves the visits and the payoff of every other
\* node as they were.
C21_BackpropagationAlongParentChain ==
    [][(pc = "simulate" /\ pc' = "restart") =>
         LET chain == ParentChain(tree'.nodes, tree'.currentNode)
             r == GetReward(sim)
         IN  /\ Root(tree') \in chain
             /\ \A n \in 1..Len(tree'.nodes) :
                  /\ tree'.nodes[n].visits
                       = VisitsBefore(n) + (IF n \in chain THEN 1 ELSE 0)
                  /\ tree'.nodes[n].payoff
                       = PayoffBefore(n) + (IF n \in chain THEN r ELSE 0)]_vars

\* A negative reward has just been backpropagated from a node two levels
\* below the root, while a node off the chain holds visits of its own.
C21_Witness ==
    /\ pc = "restart"
    /\ GetReward(sim) < 0
    /\ Cardinality(ParentChain(tree.nodes, tree.currentNode)) >= 3
    /\ \E n \in NodeIds \ ParentChain(tree.nodes, tree.currentNode) :
          tree.nodes[n].visits > 0 /\ tree.nodes[n].payoff # 0
    /\ tree.nodes[Root(tree)].visits = startTree.nodes[Root(startTree)].visits + 1

\* The sum of the payoffs of the nodes of S.
SumPayoff(S) == SumOver(tree.nodes, S, "payoff")

\* C22: at every iteration boundary each node's payoff is the sum of the
\* rewards of the completed iterations counted in its visits: the root's
\* payoff is the sum of the rewards of all completed iterations, and every
\* node's payoff (like its visits) is the sum over its children plus what was
\* backpropagated directly from it; a terminal node holds its state's reward
\* once per visit.
C22_PayoffIsSumOfCountedRewards ==
    AtIterationBoundary =>
        /\ Len(directPayoff) = Len(tree.nodes)
        /\ tree.nodes[Root(tree)].payoff = SumSeq(directPayoff)
        /\ tree.nodes[Root(tree)].visits = completed
        /\ \A n \in NodeIds :
              /\ tree.nodes[n].payoff = SumPayoff(ChildrenOf(n)) + DirectPayoffOf(n)
              /\ tree.nodes[n].visits = SumVisits(ChildrenOf(n)) + DirectVisitsOf(n)
              /\ IsFinalState(tree.nodes[n]) =>
                    /\ tree.nodes[n].payoff = tree.nodes[n].visits * tree.nodes[n].state.score
                    /\ DirectPayoffOf(n) = tree.nodes[n].payoff

\* Four iterations or more are completed, the root's payoff is not zero, and
\* a node below the root holds both rewards backpropagated from it and
\* rewards that came up from a child.
C22_Witness ==
    /\ AtIterationBoundary
    /\ completed >= 4
    /\ tree.nodes[Root(tree)].payoff # 0
    /\ \E n \in NodeIds \ {Root(tree)} :
          /\ DirectPayoffOf(n) # 0
          /\ \E c \in ChildrenOf(n) : tree.nodes[c].payoff # 0
          /\ tree.nodes[n].payoff # DirectPayoffOf(n)

\* Selection is about to compute UCT at the cursor: no legal joint action of
\* the cursor is unplayed.
SelectComputesUCT ==
    /\ pc = "select"
    /\ Len(UnplayedSimultActions(tree.nodes, tree.currentNode)) = 0

\* C23: Selection computes UCT at a node only when every legal joint action
\* of the node has a child with at least one visit; every call of UCT then
\* has actionVisits >= 1 and numberOfVisits >= 1, so that the zero-visit
\* error is never raised.
C23_UCTOnlyOnFullyPlayedNodes ==
    SelectComputesUCT =>
        LET n == tree.currentNode
            legal == PossibleSimultActions(tree.nodes[n])
        IN  /\ \A k \in 1..Len(legal) :
                  /\ HasChild(tree.nodes[n], legal[k])
                  /\ tree.nodes[GetChild(tree.nodes[n], legal[k])].visits >= 1
            /\ tree.nodes[n].visits >= Len(legal)
            /\ \A call \in UCTCalls(tree.nodes, n) :
                  /\ call.actionVisits >= 1
                  /\ call.numberOfVisits >= call.actionVisits
                  /\ ~UCTThrows(call.actionVisits, call.numberOfVisits)

\* Selection computes UCT for the second time at a node with four legal
\* joint actions: two calls for each player, one of them with three visits
\* of the action.
C23_Witness ==
    /\ SelectComputesUCT
    /\ Len(PossibleSimultActions(tree.nodes[tree.currentNode])) = 4
    /\ Cardinality(UCTCalls(tree.nodes, tree.currentNode)) = 4
    /\ \E call \in UCTCalls(tree.nodes, tree.currentNode) :
          call.actionVisits = 3 /\ call.numberOfVisits = 5

\* C24: a rollout does not touch the tree while it plays: from the
\* registration of the expansion node to the end of the rollout no node is
\* created, the cursor stays on the expansion node and no counter changes;
\* when the rollout ends, the rollout count of the expansion node and of each
\* of its ancestors up to the root increases by exactly 1, no other rollout
\* count changes, and visits, payoffs, cursor and nodes stay as they were.
C24_RolloutFrame ==
    [][/\ (pc = "rollout" /\ pc' = "rollout") =>
            /\ tree' = tree
            /\ tree.currentNode \in expansionNodes
       /\ (pc = "rollout" /\ pc' = "simulate") =>
            LET chain == ParentChain(tree.nodes, tree.currentNode)
            IN  /\ didRollout'
                /\ tree.currentNode \in expansionNodes
                /\ Root(tree) \in chain
                /\ Len(tree'.nodes) = Len(tree.nodes)
                /\ tree'.currentNode = tree.currentNode
                /\ tree'.registry = tree.registry
                /\ \A n \in NodeIds :
                      /\ tree'.nodes[n].rollouts
                           = tree.nodes[n].rollouts + (IF n \in chain THEN 1 ELSE 0)
                      /\ tree'.nodes[n].visits = tree.nodes[n].visits
                      /\ tree'.nodes[n].payoff = tree.nodes[n].payoff
                      /\ tree'.nodes[n].parent = tree.nodes[n].parent
                      /\ tree'.nodes[n].childs = tree.nodes[n].childs]_vars

\* A rollout that played a turn has just ended on an expansion node below the
\* root: the node holds one rollout, the root two or more, and another
\* expansion node, off the chain, still holds its one rollout.
C24_Witness ==
    /\ pc = "simulate"
    /\ didRollout
    /\ calls.runs >= 2
    /\ tree.currentNode # Root(tree)
    /\ tree.nodes[tree.currentNode].rollouts = 1
    /\ tree.nodes[tree.currentNode].visits = 0
    /\ tree.nodes[Root(tree)].rollouts >= 2
    /\ \E n \in expansionNodes \ ParentChain(tree.nodes, tree.currentNode) :
          tree.nodes[n].rollouts = 1

\* _simulate is about to call goToChildState with the simulator's previous
\* joint action and its state (lines 484, 491, 499 and 509 of the driver).
GoToChildStateCalled ==
    /\ pc = "simulate"
    /\ IF IsOver(game, sim) THEN ~didRollout
       ELSE \/ AwaitsChance(SimState(game, sim))
            \/ ~HasState(tree, SimState(game, sim))
            \/ NodeHash(tree.nodes[tree.currentNode]) # StateHash(SimState(game, sim))

\* C25: goToChildState(a, s) called with cursor c: afterwards the cursor is
\* c's child stored under a's hash; if c had no child under that hash exactly
\* one node is created (state s, parent c, no visit, payoff or rollout) and it
\* is registered under s's hash only if that hash was not registered; if c
\* had that child no node is created and the registry is not written; the
\* counters, states, parents and children of the nodes that existed, c's
\* child map apart, are unchanged.
C25_GoToChildStateFrame ==
    GoToChildStateCalled =>
        LET c   == tree.currentNode
            a   == GetPreviousSimultaneousAction(game, sim)
            s   == SimState(game, sim)
            t2  == GoToChildState(tree, a, s)
            had == HasChild(tree.nodes[c], a)
            new == Len(tree.nodes) + 1
        IN  /\ t2.currentNode = t2.nodes[c].childs[SimultActionHash(a)]
            /\ t2.rootHash = tree.rootHash
            /\ had => /\ t2.nodes = tree.nodes
                      /\ t2.registry = tree.registry
                      /\ t2.currentNode = tree.nodes[c].childs[SimultActionHash(a)]
                      /\ NodeHash(t2.nodes[t2.currentNode]) = StateHash(s)
            /\ ~had => /\ Len(t2.nodes) = new
                       /\ t2.currentNode = new
                       /\ t2.nodes[new] = [state |-> s, parent |-> c, childs |-> <<>>,
                                           visits |-> 0, payoff |-> 0, rollouts |-> 0]
                       /\ t2.registry = IF StateHash(s) \in DOMAIN tree.registry
                                        THEN tree.registry
                                        ELSE (StateHash(s) :> new) @@ tree.registry
                       /\ DOMAIN t2.nodes[c].childs
                            = DOMAIN tree.nodes[c].childs \cup {SimultActionHash(a)}
            /\ \A n \in NodeIds :
                  /\ t2.nodes[n].visits = tree.nodes[n].visits
                  /\ t2.nodes[n].payoff = tree.nodes[n].payoff
                  /\ t2.nodes[n].rollouts = tree.nodes[n].rollouts
                  /\ t2.nodes[n].parent = tree.nodes[n].parent
                  /\ t2.nodes[n].state = tree.nodes[n].state
                  /\ n # c => t2.nodes[n].childs = tree.nodes[n].childs
                  /\ \A k \in DOMAIN tree.nodes[n].childs :
                        t2.nodes[n].childs[k] = tree.nodes[n].childs[k]

\* goToChildState has just created a node for a state whose hash was already
\* registered for another node, in a call that followed one in which the
\* cursor went to an existing child.
C25_Witness ==
    /\ pc = "restart"
    /\ tree.currentNode = Len(tree.nodes)
    /\ tree.currentNode \notin DOMAIN startTree.nodes
    /\ tree.registry[NodeHash(tree.nodes[tree.currentNode])] # tree.currentNode
    /\ tree.nodes[tree.currentNode].parent \in DOMAIN startTree.nodes
    /\ tree.nodes[tree.currentNode].parent # Root(tree)

\* C26: the tree only grows: no step removes a node, changes the parent or
\* the state of a node, re-points or removes a child key, or deletes or
\* replaces an entry of the registry; a node is added only by goToChildState,
\* one at a time, as a child of the cursor.
C26_TreeOnlyGrows ==
    [][/\ Len(tree'.nodes) >= Len(tree.nodes)
       /\ tree'.rootHash = tree.rootHash
       /\ \A n \in NodeIds :
             /\ tree'.nodes[n].parent = tree.nodes[n].parent
             /\ tree'.nodes[n].state = tree.nodes[n].state
             /\ \A k \in DOMAIN tree.nodes[n].childs :
                   /\ k \in DOMAIN tree'.nodes[n].childs
                   /\ tree'.nodes[n].childs[k] = tree.nodes[n].childs[k]
       /\ \A h \in DOMAIN tree.registry :
             /\ h \in DOMAIN tree'.registry
             /\ tree'.registry[h] = tree.registry[h]
       /\ Len(tree'.nodes) > Len(tree.nodes) =>
             /\ GoToChildStateCalled
             /\ Len(tree'.nodes) = Len(tree.nodes) + 1
             /\ tree'.nodes[Len(tree'.nodes)].parent = tree.currentNode
             /\ tree'.nodes[Len(tree'.nodes)].state = SimState(game, sim)
             /\ tree'.nodes = GoToChildState(tree, GetPreviousSimultaneousAction(game, sim),
                                             SimState(game, sim)).nodes
                \/ pc' = "restart"]_vars

\* After a second call has returned the tree holds six nodes, two of them
\* with the same state hash and one registry entry for both.
C26_Witness ==
    /\ Returned
    /\ completed >= 5
    /\ Len(tree.nodes) >= 6
    /\ Cardinality(DOMAIN tree.registry) < Len(tree.nodes)
    /\ \A n \in NodeIds \ {Root(tree)} :
          n \in ChildrenOf(tree.nodes[n].parent)

\* C28: a call runSimulations(n) never performs more than n iterations, for
\* every n >= 0: the iterations counted since the call began never exceed
\* the count requested, so that runSimulations(0) performs none and leaves
\* simulationsRan and the root's counters as they were.
C28_NeverMoreThanRequested ==
    /\ simulationsRan - ranAtCall <= Requested
    /\ completed - ranAtCall <= Requested
    /\ Requested = 0 => tree.nodes[Root(tree)].visits = ranAtCall

\* The nodes whose state awaits chance.
ChanceNodes == {n \in NodeIds : AwaitsChance(tree.nodes[n].state)}

\* The score after the play of a chance state is resolved as the child key h
\* says (the values of the players named in h.doubled count twice).
ResolvedScore(st, h) ==
    st.score + ((IF InSeq("max", h.doubled) THEN 2 * h.max ELSE h.max)
                - (IF InSeq("min", h.doubled) THEN 2 * h.min ELSE h.min))

\* Every chance node is the child of a decision node under the joint action
\* chosen there, and each of its children is keyed by a chance resolution of
\* that joint action and holds the state that resolution leads to: distinct
\* resolutions have distinct children.
ChanceBranchesApart ==
    \A c \in ChanceNodes :
        LET p   == tree.nodes[c].parent
            sel == tree.nodes[c].state.selected
        IN  /\ p # 0
            /\ ~AwaitsChance(tree.nodes[p].state)
            /\ HasChild(tree.nodes[p], sel)
            /\ GetChild(tree.nodes[p], sel) = c
            /\ \A h \in DOMAIN tree.nodes[c].childs :
                  LET k == tree.nodes[c].childs[h]
                  IN  /\ h.doubled # <<>>
                      /\ h.max = sel.max /\ h.min = sel.min
                      /\ tree.nodes[k].parent = c
                      /\ ~AwaitsChance(tree.nodes[k].state)
                      /\ tree.nodes[k].state.score = ResolvedScore(tree.nodes[c].state, h)
            /\ \A h1, h2 \in DOMAIN tree.nodes[c].childs :
                  tree.nodes[c].childs[h1] = tree.nodes[c].childs[h2] => h1 = h2

\* C29: chance branches are kept apart.  When the simulator's state awaits
\* chance, the chance node is registered as the child of the decision node
\* under the chosen joint action; each distinct chance resolution gets its
\* own child of the chance node; and an iteration that resolved chance in the
\* tree backpropagates from the child stored under its own resolution, so
\* that two iterations with different resolutions never share that child.
C29_ChanceBranchesKeptApart ==
    /\ []ChanceBranchesApart
    /\ [][/\ (pc = "simulate" /\ ~IsOver(game, sim) /\ AwaitsChance(SimState(game, sim))) =>
               /\ tree'.currentNode \in {n \in 1..Len(tree'.nodes) :
                                            AwaitsChance(tree'.nodes[n].state)}
               /\ tree'.nodes[tree'.currentNode].parent = tree.currentNode
               /\ tree'.nodes[tree.currentNode].childs[
                      SimultActionHash(PlayLogAt(sim, sim.turn))] = tree'.currentNode
               /\ tree'.nodes[tree'.currentNode].state = SimState(game, sim)
          /\ (pc = "simulate" /\ pc' = "restart" /\ ~didRollout
                /\ PlayLogAt(sim, sim.turn - 1).rng) =>
               LET last == PlayLogAt(sim, sim.turn - 1)
                   c    == tree'.nodes[tree'.currentNode].parent
               IN  /\ c = tree.currentNode
                   /\ AwaitsChance(tree.nodes[c].state)
                   /\ tree'.nodes[c].childs[SimultActionHash(last)] = tree'.currentNode
                   /\ tree'.nodes[tree'.currentNode].state.score = GetReward(sim)
                   /\ directVisits'[tree'.currentNode]
                        = DirectVisitsOf(tree'.currentNode) + 1]_vars

\* Iterations that chose the same joint action at the root have resolved
\* chance in three ways or more: the chance node has a visited child for
\* each, two of them for states with the same hash.
C29_Witness ==
    /\ AtIterationBoundary
    /\ \E c \in ChanceNodes :
          /\ tree.nodes[c].parent = Root(tree)
          /\ Cardinality(ChildrenOf(c)) >= 3
          /\ \A k \in ChildrenOf(c) : tree.nodes[k].visits >= 1
          /\ \E k1, k2 \in ChildrenOf(c) :
                /\ k1 # k2
                /\ NodeHash(tree.nodes[k1]) = NodeHash(tree.nodes[k2])
          /\ tree.nodes[c].visits = SumVisits(ChildrenOf(c))

\* The node reached from node n by following the child keys of path.
RECURSIVE FollowPath(_, _)
FollowPath(n, path) ==
    IF Len(path) = 0 THEN n
    ELSE IF n = 0 \/ Head(path) \notin DOMAIN tree.nodes[n].childs THEN 0
    ELSE FollowPath(tree.nodes[n].childs[Head(path)], Tail(path))

\* C30: for every node n of the tree but the root, actionPath(n) is the
\* sequence of child keys along the parent chain from the root to n: it has
\* one key for each ancestor, and following the keys from the root through
\* the child maps arrives at n itself, also when a parent has several
\* children whose states have the same hash.
C30_ActionPathLeadsToNode ==
    \A n \in NodeIds \ {Root(tree)} :
        /\ Len(ActionPath(tree.nodes, n)) = Cardinality(ParentChain(tree.nodes, n)) - 1
        /\ FollowPath(Root(tree), ActionPath(tree.nodes, n)) = n

\* C27: getSimultaneousAction fails with an error when the node has legal
\* joint actions but none of them matches all the given per-player action
\* hashes: it never returns an absent value (which Selection would pass on to
\* the simulator's choose); what it returns without an error is a legal joint
\* action with the given components.
C27_UnmatchedChoicesFail ==
    probe.called =>
        LET legal == PossibleSimultActions(tree.nodes[tree.currentNode])
            matches(sa) == /\ PlayerActionHash(sa.max) = PlayerActionHash(probe.actions.max)
                           /\ PlayerActionHash(sa.min) = PlayerActionHash(probe.actions.min)
        IN  /\ (\A k \in 1..Len(legal) : ~matches(legal[k])) => probe.threw
            /\ ~probe.threw =>
                  /\ probe.returned # NoAction
                  /\ InSeq(probe.returned, legal)
                  /\ matches(probe.returned)

\* The UCT value of action a for player p at node n of the nodes nds, from
\* the marginal payoff and the marginal visits of the action: sign(p) *
\* (payoff / visits + C * sqrt(log10(node visits) / visits)), in units of
\* 1 / Scale.
MarginalUCT(nds, n, p, a) ==
    LET pay == GetCumulativePayoff(nds, n, p, a)
        vis == GetNumberOfVisits(nds, n, p, a)
    IN  (IF p = "max" THEN 1 ELSE -1)
          * (((pay * Scale) \div vis)
             + ((DEFAULT_EXPLORATION_COEFFICIENT
                   * Sqrt((Log10Scaled(nds[n].visits) * Scale) \div vis)) \div Scale))

\* C31: at a fully explored node Selection chooses, for each player on its
\* own, an action whose UCT value is maximal among the player's legal
\* actions, and the joint action it hands to the simulator is the legal joint
\* action whose components are the two chosen actions.
C31_SelectionMaximisesUCT ==
    [][(pc = "select" /\ SelectComputesUCT) =>
         LET n      == tree.currentNode
             chosen == PlayLogAt(sim', sim.turn)
         IN  /\ InSeq(chosen, PossibleSimultActions(tree.nodes[n]))
             /\ \A p \in {"min", "max"} :
                   LET acts == GetPlayerActions(tree.nodes[n].state, p)
                   IN  /\ InSeq(ActionOf(chosen, p), acts)
                       /\ \A k \in 1..Len(acts) :
                             MarginalUCT(tree.nodes, n, p, acts[k])
                               <= MarginalUCT(tree.nodes, n, p, ActionOf(chosen, p))]_vars

\* Selection has just chosen by UCT at the root, where each player had an
\* action of lower UCT value than the one chosen.
C31_Witness ==
    /\ pc = "simulate"
    /\ ~didRollout
    /\ sim.turn = 2
    /\ calls.runs = 1
    /\ tree.currentNode = Root(tree)
    /\ Len(UnplayedSimultActions(tree.nodes, Root(tree))) = 0
    /\ \A p \in {"min", "max"} :
          \E k \in 1..Len(GetPlayerActions(tree.nodes[Root(tree)].state, p)) :
             MarginalUCT(tree.nodes, Root(tree), p,
                         GetPlayerActions(tree.nodes[Root(tree)].state, p)[k])
               < MarginalUCT(tree.nodes, Root(tree), p, ActionOf(PlayLogAt(sim, 1), p))

\* C32: whenever Selection runs, the hash of the cursor node's state is the
\* hash of the simulator's current state: after the alignment step of
\* _simulate the cursor stands on a node for the state the simulator is in.
C32_SelectionAtSimulatorState ==
    pc = "select" =>
        /\ NodeHash(tree.nodes[tree.currentNode]) = StateHash(SimState(game, sim))
        /\ tree.nodes[tree.currentNode].state = SimState(game, sim)
        /\ HasState(tree, SimState(game, sim))

\* Selection runs on a node below the root that the alignment step has just
\* moved the cursor to, one turn having been played in the iteration.
C32_Witness ==
    /\ pc = "select"
    /\ tree.currentNode # Root(tree)
    /\ tree.nodes[tree.currentNode].parent = Root(tree)
    /\ sim.turn = 2
    /\ calls.runs = 1
    /\ tree.nodes[tree.currentNode].visits >= 1

\* The step calls choose: the play log gets an entry for the current turn.
ChooseCalled == sim.turn \notin DOMAIN sim.playLog /\ sim.turn \in DOMAIN sim'.playLog

\* The joint action handed to choose in the step (runSimultaneousAction, if
\* it follows in the same step, puts the chance resolution of the same draws
\* in its place).
ChosenAction ==
    DrawHighCardFullAction(PlayLogAt(sim', sim.turn).max, PlayLogAt(sim', sim.turn).min)

\* C33: every joint action the driver passes to choose, in Selection and in
\* Rollout, is one of the possibleSimultaneousActions of the simulator's
\* state at the moment of the call, and choose is never called when the
\* simulator is over; every selection and rollout step calls choose.
C33_ChosenActionsAreLegal ==
    [][/\ ChooseCalled =>
            /\ ~IsOver(game, sim)
            /\ pc \in {"select", "rollout"}
            /\ InSeq(ChosenAction, PossibleSimultaneousActions(SimState(game, sim)))
       /\ (pc = "select" \/ (pc = "rollout" /\ pc' = "rollout")) => ChooseCalled]_vars

\* Selection has chosen at a node below the root, in an iteration after one
\* in which a rollout chose a joint action.
C33_Witness ==
    /\ pc = "simulate"
    /\ ~didRollout
    /\ sim.turn = 3
    /\ calls.runs = 2
    /\ tree.currentNode # Root(tree)
    /\ expansionNodes # {}
    /\ tree.nodes[tree.currentNode].rollouts = 1
    /\ InSeq(PlayLogAt(sim, 2), PossibleSimultActions(tree.nodes[tree.currentNode]))

\* The driver is about to call choose: in Selection, or in a turn of Rollout.
ChooseAboutToBeCalled == pc = "select" \/ (pc = "rollout" /\ ~IsOver(game, sim))

\* Between two restarts the calls made so far alternate: every turn before
\* the current one was chosen and run, and the current turn has at most a
\* chosen play that was not run yet.  choose is only called with no play
\* chosen for the turn, and the run of a chance state finds a chosen play
\* that was not resolved yet.
CallsAlternate ==
    /\ sim.turn >= 1
    /\ DOMAIN sim.playLog \in {1..(sim.turn - 1), 1..sim.turn}
    /\ calls.runs = sim.turn - 1
    /\ ChooseAboutToBeCalled => sim.turn \notin DOMAIN sim.playLog
    /\ (pc = "simulate" /\ ~IsOver(game, sim) /\ AwaitsChance(SimState(game, sim))) =>
          /\ sim.turn \in DOMAIN sim.playLog
          /\ ~PlayLogAt(sim, sim.turn).rng
    /\ (sim.turn \in DOMAIN sim.playLog) =>
          /\ game.canDouble
          /\ pc = "simulate"

\* C34: between two restarts the driver's calls of the simulator alternate
\* choose, runSimultaneousAction, choose, ...: choose is never called for a
\* turn that has a chosen play (its error is never raised), and
\* runSimultaneousAction is never called without a chosen play that it has
\* not run yet; with and without chance states.
C34_ChooseAndRunAlternate ==
    /\ []CallsAlternate
    /\ [][/\ ChooseCalled => sim.turn \notin DOMAIN sim.playLog
          /\ (calls'.runs = calls.runs + 1) =>
                /\ sim'.turn = sim.turn + 1
                /\ sim.turn \in DOMAIN sim'.playLog
                /\ sim'.turn \notin DOMAIN sim'.playLog
                /\ ChooseCalled \/ ~PlayLogAt(sim, sim.turn).rng
          /\ (calls'.runs # calls.runs + 1) =>
                \/ sim'.turn = sim.turn /\ (ChooseCalled \/ sim' = sim)
                \/ pc = "restart" /\ sim'.turn = 1 /\ sim'.playLog = <<>>]_vars

\* With chance, in an iteration after a restart: the play chosen for the
\* first turn has been resolved by a run of its own, and the simulator is
\* in its second turn with no play chosen.
C34_Witness ==
    /\ game.canDouble
    /\ completed >= 1
    /\ pc = "simulate"
    /\ sim.turn = 2
    /\ calls.runs = 1
    /\ PlayLogAt(sim, 1).rng
    /\ sim.turn \notin DOMAIN sim.playLog

\* C35: at every iteration boundary every node of the tree but the root has
\* a visit count of at least 1 (a node is created in an iteration whose
\* backpropagation passes through it), so that every terminal node the
\* payoff statistics divide by has visits > 0.
C35_NodesBelowRootAreVisited ==
    AtIterationBoundary =>
        /\ \A n \in NodeIds \ {Root(tree)} :
              /\ tree.nodes[n].visits >= 1
              /\ tree.nodes[tree.nodes[n].parent].visits >= tree.nodes[n].visits
        /\ \A n \in Leaves(tree) : tree.nodes[n].visits > 0
        /\ \A n \in TerminalNodes : tree.nodes[n].visits > 0

\* After three iterations or more the tree holds a node below the root
\* with two visits, a terminal node below a child of the root, and a
\* registered terminal node.
C35_Witness ==
    /\ AtIterationBoundary
    /\ completed >= 3
    /\ Len(tree.nodes) >= 4
    /\ \E n \in NodeIds \ {Root(tree)} : tree.nodes[n].visits >= 2
    /\ \E n \in TerminalNodes : tree.nodes[n].parent # Root(tree)
    /\ Leaves(tree) # {}

\* The sum of the rollout counts of the nodes of S.
SumRollouts(S) == SumOver(tree.nodes, S, "rollouts")

\* At an iteration boundary the rollouts are accounted for: a node has no
\* more rollouts than visits, its rollout count is the sum of those of its
\* children, plus 1 if a rollout started from it, and the root's count is the
\* number of nodes a rollout started from.
RolloutsAccounted ==
    AtIterationBoundary =>
        /\ \A n \in NodeIds :
              /\ tree.nodes[n].rollouts <= tree.nodes[n].visits
              /\ tree.nodes[n].rollouts
                   = SumRollouts(ChildrenOf(n)) + (IF n \in expansionNodes THEN 1 ELSE 0)
        /\ tree.nodes[Root(tree)].rollouts = Cardinality(expansionNodes)
        /\ expansionNodes \subseteq NodeIds \ {Root(tree)}

\* C36: rollout accounting.  At every iteration boundary, for every node,
\* rollouts <= visits and rollouts is the sum of the children's rollout
\* counts plus 1 if the node was the expansion node of an iteration; a node
\* is the expansion node of at most one iteration (a rollout starts from a
\* node just created, and an iteration has at most one rollout), so the
\* root's rollout count is the number of iterations that performed a rollout.
C36_RolloutAccounting ==
    /\ []RolloutsAccounted
    /\ [][/\ (pc = "simulate" /\ pc' = "rollout") =>
                /\ tree'.currentNode \notin NodeIds
                /\ tree'.currentNode \notin expansionNodes
                /\ expansionNodes' = expansionNodes \cup {tree'.currentNode}
                /\ ~didRollout
                /\ tree.nodes[Root(tree)].rollouts
                     = startTree.nodes[Root(startTree)].rollouts
          /\ (pc = "rollout" /\ pc' = "simulate") =>
                /\ tree'.nodes[Root(tree)].rollouts
                     = startTree.nodes[Root(startTree)].rollouts + 1
                /\ tree'.nodes[tree.currentNode].rollouts = 1
          /\ (pc # "simulate" /\ pc # "rollout") =>
                /\ expansionNodes' = expansionNodes
                /\ tree'.nodes[Root(tree)].rollouts = tree.nodes[Root(tree)].rollouts]_vars

\* Of five iterations or more some started a rollout and some did not: the
\* root counts fewer rollouts than visits, as many as there are expansion
\* nodes, and an expansion node has a visited child.
C36_Witness ==
    /\ AtIterationBoundary
    /\ completed >= 5
    /\ Cardinality(expansionNodes) >= 3
    /\ tree.nodes[Root(tree)].rollouts = Cardinality(expansionNodes)
    /\ tree.nodes[Root(tree)].rollouts < tree.nodes[Root(tree)].visits
    /\ \E n \in expansionNodes :
          /\ ChildrenOf(n) # {}
          /\ tree.nodes[n].rollouts = 1
          /\ tree.nodes[n].visits >= 2

\* C37: whenever runSimulations returns, after one iteration or more, the
\* payoff statistics are taken from at least one terminal node of the tree:
\* the total weight is positive, min <= avg <= max and min <= mode <= max
\* (avg is rewardSum / visits, mode the mean payoff of the mode node), and
\* modePath is the path to a terminal node; also when every iteration ended
\* with a rollout.
C37_StatisticsFromATerminalNode ==
    (Returned /\ completed >= 1) =>
        LET p == result.payoff
        IN  /\ p.values # {}
            /\ p.visits > 0
            /\ p.modeNode \in TerminalNodes
            /\ Len(p.modePath) >= 1
            /\ \E lo, hi \in p.values :
                  /\ \A v \in p.values : lo <= v /\ v <= hi
                  /\ lo * p.visits <= p.rewardSum
                  /\ p.rewardSum <= hi * p.visits
                  /\ lo * tree.nodes[p.modeNode].visits <= tree.nodes[p.modeNode].payoff
                  /\ tree.nodes[p.modeNode].payoff <= hi * tree.nodes[p.modeNode].visits

\* C38: the exploration term favours the less visited action for both
\* players: at a fully explored node with more than one visit, of two legal
\* actions of the same player with equal mean marginal payoff, the one with
\* fewer marginal visits gets the higher UCT value in Selection, for max and
\* for min alike.
C38_ExplorationFavoursLessVisited ==
    (SelectComputesUCT /\ tree.nodes[tree.currentNode].visits > 1) =>
        \A a, b \in UCTCalls(tree.nodes, tree.currentNode) :
            LET n  == tree.currentNode
                pa == GetCumulativePayoff(tree.nodes, n, a.player, a.action)
                pb == GetCumulativePayoff(tree.nodes, n, b.player, b.action)
            IN  (/\ a.player = b.player
                 /\ a.actionVisits < b.actionVisits
                 /\ pa * b.actionVisits = pb * a.actionVisits)
                => UCT(a.player, pa, a.actionVisits, a.numberOfVisits,
                       DEFAULT_EXPLORATION_COEFFICIENT)
                     > UCT(b.player, pb, b.actionVisits, b.numberOfVisits,
                           DEFAULT_EXPLORATION_COEFFICIENT)

\* C39: addAction(action) returns true when the action's hash was not yet in
\* the translation list and the action was added, and false when the hash
\* was there already; in the second case the list is left as it was (the
\* first registration wins).  Taken at the calls goToChildState makes.
C39_AddActionReportsAddition ==
    GoToChildStateCalled =>
        LET a == GetPreviousSimultaneousAction(game, sim)
            h == SimultActionHash(a)
        IN  /\ AddActionReturns(tree.actions, a) = (h \notin DOMAIN tree.actions)
            /\ h \in DOMAIN tree.actions => AddAction(tree.actions, a) = tree.actions
            /\ h \notin DOMAIN tree.actions =>
                  /\ DOMAIN AddAction(tree.actions, a) = DOMAIN tree.actions \cup {h}
                  /\ AddAction(tree.actions, a)[h] = a

====
